---- MODULE Spec2Model ----
(***************************************************************************)
(* pram: convention based pub/sub over SNS topics and SQS queues.          *)
(*                                                                         *)
(* Part 1 models one Subscriber.Subscribe invocation (subscriber.go): the  *)
(* calling goroutine, the poll goroutine and one goroutine per received    *)
(* message.  Part 2 models a Registry backed by the InMemoryStore          *)
(* (registry.go, internal/store/store.go, internal/aws service) used by    *)
(* concurrent callers.  Part 3 models the InMemoryStore called directly    *)
(* with arbitrary value functions, part 4 Publisher.Publish                *)
(* (publisher.go).                                                         *)
(***************************************************************************)
EXTENDS Integers, Sequences, FiniteSets, TLC

(***************************************************************************)
(* Bounds                                                                  *)
(***************************************************************************)
\* messages delivered to one Subscribe invocation
MaxTasks == 3
\* ReceiveMessage calls issued by one Subscribe invocation
MaxReceives == 2
\* SubscriberOptions.MaxNumberOfMessages as configured (batch size limit)
MaxNumberOfMessages == 2
\* goroutines calling one Registry concurrently
NumCallers == 2
\* TopicARN/QueueURL calls made on one Registry
MaxCalls == 3
\* messages delivered and ReceiveMessage calls issued when the queue holds
\* bodies of every kind
MaxDecodeTasks == 2
MaxDecodeReceives == 1
\* GetOrSetTopicARN/GetOrSetQueueURL calls made on one InMemoryStore
MaxStoreCalls == 3
\* messages delivered to and ReceiveMessage calls issued by each of several
\* concurrent Subscribe invocations
MultiTasks == 1
MultiReceives == 1
\* SetLogger and Logf calls made in one process
MaxLogOps == 4
\* Publish calls made on one Publisher
MaxPublishes == 3
MaxCancelTasks == 2
MaxCancelReceives == 1

VARIABLES
    feed,         \* what the queue delivers: body kinds, messages, receives
    resolver,     \* Subscriber.queueURLFn: "default" (NewSubscriber) or "custom"
    ctxDone,      \* the caller's context has been cancelled
    subPc,        \* Subscribe's own goroutine: "start", "waiting", "returned"
    ret,          \* Subscribe's return value once returned ("nil" or an error)
    q,            \* the queue url resolved at line 78
    qerr,         \* the error queueURLFn returned at line 78 ("none" before)
    resolves,     \* number of queueURLFn calls made
    wg,           \* the sync.WaitGroup counter
    pollPc,       \* poll goroutine: "idle", "select", "receiving", "done"
    tick,         \* a tick is pending on the ticker channel rt.C
    receives,     \* ReceiveMessage calls started, in order
    recvSink,     \* errors the poll goroutine passed to errorFn
    tasks,        \* handling goroutines, in spawn order
    opts,         \* the Registry's naming options
    items,        \* InMemoryStore.items: key -> value
    callers,      \* the goroutines calling the Registry
    started,      \* number of Registry calls started
    overlapped,   \* some Registry call started while another was running
    prov,         \* provisioning function invocations and failures
    clients,      \* the goroutines calling the InMemoryStore directly
    firstSet,     \* key -> the first value a value function produced for it
    topicFn,      \* Publisher.topicARNFn: "default" (NewPublisher) or "custom"
    pubCalls,     \* the Publish calls made, in order of their start
    snsLog,       \* the PublishInputs passed to the SNS client, in order
    codec,        \* one Marshal call followed by one Unmarshal call
    regs,         \* two Registries: their naming options, the names resolved
    subs,         \* concurrent Subscribe invocations on one Subscriber, by handler
    log           \* the package logger, the calls made and what loggers received

subVars == <<feed, resolver, ctxDone, subPc, ret, q, qerr, resolves, wg, pollPc,
             tick, receives, recvSink, tasks>>

(***************************************************************************)
(* Message bodies and decoding (subscriber.go 136-145, message.go 48-107)  *)
(***************************************************************************)
RECURSIVE Join(_, _)
\* the segments of a name joined by a separator
Join(segs, sep) ==
    IF segs = <<>> THEN ""
    ELSE IF Len(segs) = 1 THEN segs[1]
    ELSE segs[1] \o sep \o Join(Tail(segs), sep)

\* the proto full name of testpb.Message, as its dot separated segments
TestMessage == <<"pram", "test", "Message">>

\* the payload type of the handler's Message() prototype: its full name
HandlerType == Join(TestMessage, ".")

\* A transport body: the JSON wrapper's "Message" field (absent, or a string
\* that is or is not base64) and, when it is base64, the bytes it encodes:
\* "" (no bytes), "garbage" (not a prampb.Message) or an envelope whose
\* Any body carries payload type `type`.
Body(field, bytes, type) == [field |-> field, bytes |-> bytes, type |-> type]

ValidBody == Body("b64", "envelope", HandlerType)
EmptyFieldBody == Body("empty", "", "")
MissingFieldBody == Body("absent", "", "")
BadBase64Body == Body("notb64", "", "")
GarbageBody == Body("b64", "garbage", "")
OtherTypeBody == Body("b64", "envelope", "pram.test.Other")

Bodies == {ValidBody, EmptyFieldBody, MissingFieldBody, BadBase64Body,
           GarbageBody, OtherTypeBody}

\* bodies the modelled queue delivers to a subscriber
RecvBodies == {ValidBody, EmptyFieldBody}

\* a queue holding well-formed messages and messages with an empty payload
SubscribeFeed ==
    [bodies |-> RecvBodies, maxTasks |-> MaxTasks, maxReceives |-> MaxReceives,
     record |-> {}]

\* a queue holding messages of every kind
DecodeFeed ==
    [bodies |-> Bodies, maxTasks |-> MaxDecodeTasks,
     maxReceives |-> MaxDecodeReceives, record |-> {}]

\* a queue holding well-formed messages, every ReceiveMessage output of which
\* is kept with the call that returned it
BatchFeed ==
    [bodies |-> {ValidBody}, maxTasks |-> MaxTasks, maxReceives |-> MaxReceives,
     record |-> {"ReceiveMessage"}]

\* a queue holding a few well-formed messages; the output of every
\* ReceiveMessage call is kept, and whether ctx was done when it and when
\* Handle returned
CancelFeed ==
    [bodies |-> {ValidBody}, maxTasks |-> MaxCancelTasks,
     maxReceives |-> MaxCancelReceives,
     record |-> {"Handle", "ReceiveMessage", "Return"}]

\* mutant of Unmarshal: the payload type is not compared with the prototype
UnmarshalNoTypeCheck(bytes, type, proto) ==
    IF bytes = "garbage" THEN [err |-> "proto: cannot parse", payload |-> ""]
    ELSE IF bytes = "" THEN [err |-> "invalid nil source message", payload |-> ""]
    ELSE [err |-> "nil", payload |-> type]

\* gjson.Get(body, "Message").Str: "" when the field is absent
gjsonGet(body) == IF body.field = "absent" THEN "empty" ELSE body.field

\* base64.StdEncoding.DecodeString: the empty string decodes to no bytes
base64Decode(body) ==
    LET em == gjsonGet(body) IN
    IF em = "notb64" THEN [err |-> "illegal base64 data", bytes |-> ""]
    ELSE IF em = "empty" THEN [err |-> "nil", bytes |-> ""]
    ELSE [err |-> "nil", bytes |-> body.bytes]

\* Unmarshal + unwrap: proto.Unmarshal accepts no bytes as the zero
\* prampb.Message, whose nil Body then fails UnmarshalTo
Unmarshal(bytes, type, proto) ==
    IF bytes = "garbage" THEN [err |-> "proto: cannot parse", payload |-> ""]
    ELSE IF bytes = "" THEN [err |-> "invalid nil source message", payload |-> ""]
    ELSE IF type # proto THEN [err |-> "mismatched message type", payload |-> ""]
    ELSE [err |-> "nil", payload |-> proto]

\* mutant of Decode: the errors of lines 138 and 143 are not checked
DecodeErrIgnored(body, proto) == [err |-> "nil", payload |-> proto]

\* handleMessage lines 136-145: the error it returns before Handle, or "nil"
Decode(body, proto) ==
    LET b == base64Decode(body) IN
    IF b.err # "nil" THEN [err |-> b.err, payload |-> ""]
    ELSE Unmarshal(b.bytes, body.type, proto)

(***************************************************************************)
(* Subscribe (subscriber.go 77-117)                                        *)
(***************************************************************************)
\* what queueURLFn may return: NewSubscriber's default always fails
QueueURLFnResults(r) ==
    IF r = "default" THEN {[url |-> "", err |-> "queue not found"]}
    ELSE {[url |-> "queue", err |-> "nil"], [url |-> "", err |-> "resolve error"]}

\* no payload: Handle has not been invoked
NoArg == [inst |-> 0, type |-> ""]

NewTask(msg) ==
    [msg |-> msg, pc |-> "spawned", handled |-> 0, hret |-> "none",
     del |-> <<>>, sink |-> <<>>, inst |-> 0, arg |-> NoArg,
     hctxDone |-> FALSE]

SubInit ==
    /\ resolver \in {"default", "custom"}
    /\ ctxDone = FALSE
    /\ subPc = "start"
    /\ ret = "none"
    /\ q = ""
    /\ qerr = "none"
    /\ resolves = 0
    /\ wg = 0
    /\ pollPc = "idle"
    /\ tick = FALSE
    /\ receives = <<>>
    /\ recvSink = <<>>
    /\ tasks = <<>>

\* the caller cancels ctx (at any time, also before Subscribe is called)
Cancel ==
    /\ ~ctxDone
    /\ ctxDone' = TRUE
    /\ UNCHANGED <<feed, resolver, subPc, ret, q, qerr, resolves, wg, pollPc, tick,
                   receives, recvSink, tasks>>

\* mutant of ResolveFailed: the error is not returned and polling starts
ResolveFailedNoReturn(r) ==
    /\ q' = r.url
    /\ wg' = wg + 1
    /\ pollPc' = "select"
    /\ subPc' = "waiting"
    /\ UNCHANGED ret

\* lines 78-81: resolution failed, Subscribe returns the error
ResolveFailed(r) ==
    /\ subPc' = "returned"
    /\ ret' = r.err
    /\ UNCHANGED <<q, wg, pollPc>>

\* lines 83-86: wg.Add(1) and the poll goroutine is started
ResolveSucceeded(r) ==
    /\ q' = r.url
    /\ wg' = wg + 1
    /\ pollPc' = "select"
    /\ subPc' = "waiting"
    /\ UNCHANGED ret

\* lines 78-86
SubscribeResolve ==
    /\ subPc = "start"
    /\ resolves' = resolves + 1
    /\ \E r \in QueueURLFnResults(resolver) :
          /\ qerr' = r.err
          /\ IF r.err # "nil" THEN ResolveFailed(r) ELSE ResolveSucceeded(r)
    /\ UNCHANGED <<feed, resolver, ctxDone, tick, receives, recvSink, tasks>>

\* mutant of WaitResult: a receive error is returned to the caller
WaitResultLastErr == IF recvSink # <<>> THEN recvSink[Len(recvSink)] ELSE "nil"

\* the value Subscribe returns after wg.Wait (line 116)
WaitResult == "nil"

\* lines 115-116: wg.Wait returns once the counter is zero
SubscribeReturn ==
    /\ subPc = "waiting"
    /\ wg = 0
    /\ subPc' = "returned"
    /\ ret' = WaitResult
    /\ UNCHANGED <<feed, resolver, ctxDone, q, qerr, resolves, wg, pollPc, tick,
                   receives, recvSink, tasks>>

(***************************************************************************)
(* The poll goroutine (subscriber.go 86-113)                               *)
(***************************************************************************)
\* the runtime delivers a tick into rt.C, a channel with a buffer of one;
\* the ticker is never stopped
Tick ==
    /\ pollPc \in {"select", "receiving"}
    /\ ~tick
    /\ tick' = TRUE
    /\ UNCHANGED <<feed, resolver, ctxDone, subPc, ret, q, qerr, resolves, wg,
                   pollPc, receives, recvSink, tasks>>

\* mutant of WgAfterPollExit: the poll goroutine exits without wg.Done
WgAfterPollExitNoDone == wg

\* the deferred wg.Done of the poll goroutine (line 87)
WgAfterPollExit == wg - 1

\* lines 92-93: the select takes case <-ctx.Done() and the goroutine exits
PollDone ==
    /\ pollPc = "select"
    /\ ctxDone
    /\ pollPc' = "done"
    /\ wg' = WgAfterPollExit
    /\ UNCHANGED <<feed, resolver, ctxDone, subPc, ret, q, qerr, resolves, tick,
                   receives, recvSink, tasks>>

\* mutant of TickReady: the loop polls without waiting for a tick
TickReadyAlways == TRUE

\* line 94: case <-rt.C can proceed only when a tick is in the channel.  When
\* ctx.Done() can proceed as well, Go's select picks either case.
TickReady == tick

\* mutant of ReceiveMessageInput: the url is not the one queueURLFn returned
ReceiveMessageInputNoURL ==
    [QueueUrl |-> "", MaxNumberOfMessages |-> MaxNumberOfMessages,
     ctxDone |-> ctxDone, out |-> <<>>, retCtxDone |-> FALSE]

\* lines 120-125; ctxDone records whether ctx was already cancelled
ReceiveMessageInput ==
    [QueueUrl |-> q, MaxNumberOfMessages |-> MaxNumberOfMessages,
     ctxDone |-> ctxDone, out |-> <<>>, retCtxDone |-> FALSE]

\* mutant of PollTick: every tick starts a ReceiveMessage call, also while
\* the previous call has not returned
PollTickWhileReceiving ==
    /\ pollPc \in {"select", "receiving"}
    /\ TickReady
    /\ Len(receives) < feed.maxReceives
    /\ tick' = FALSE
    /\ receives' = Append(receives, ReceiveMessageInput)
    /\ pollPc' = "receiving"
    /\ UNCHANGED <<feed, resolver, ctxDone, subPc, ret, q, qerr, resolves, wg,
                   recvSink, tasks>>

\* mutant of PollTick: the loop waits for the goroutines of earlier batches
\* before it calls ReceiveMessage again
PollTickAfterTasks ==
    /\ pollPc = "select"
    /\ TickReady
    /\ Len(receives) < feed.maxReceives
    /\ \A i \in 1..Len(tasks) : tasks[i].pc = "done"
    /\ tick' = FALSE
    /\ receives' = Append(receives, ReceiveMessageInput)
    /\ pollPc' = "receiving"
    /\ UNCHANGED <<feed, resolver, ctxDone, subPc, ret, q, qerr, resolves, wg,
                   recvSink, tasks>>

\* lines 94-95: the select takes case <-rt.C and ReceiveMessage is called
PollTick ==
    /\ pollPc = "select"
    /\ TickReady
    /\ Len(receives) < feed.maxReceives
    /\ tick' = FALSE
    /\ receives' = Append(receives, ReceiveMessageInput)
    /\ pollPc' = "receiving"
    /\ UNCHANGED <<feed, resolver, ctxDone, subPc, ret, q, qerr, resolves, wg,
                   recvSink, tasks>>

\* types.Message number n of this invocation; SQS gives every delivery its
\* own receipt handle
Msg(n, body) == [MessageId |-> n, Body |-> body, ReceiptHandle |-> n]

Min(a, b) == IF a < b THEN a ELSE b

\* the batches a successful ReceiveMessage may return
Batches ==
    UNION {[1..n -> feed.bodies] :
             n \in 0..Min(MaxNumberOfMessages, feed.maxTasks - Len(tasks))}

\* mutant of WgAfterSpawn: the goroutines are not added to the WaitGroup
WgAfterSpawnNoAdd(n) == wg

\* line 101: wg.Add(1) for each message of the batch
WgAfterSpawn(n) == wg + n

\* lines 95 and 127: the messages of a ReceiveMessage output, each with the
\* MessageId the queue gave it
Messages(batch) == [k \in 1..Len(batch) |-> Msg(Len(tasks) + k, batch[k])]

\* mutant of Spawn: the range loop skips the first message of the batch
SpawnSkipFirst(msgs) ==
    /\ tasks' = tasks \o [k \in 1..(Len(msgs) - 1) |-> NewTask(msgs[k + 1])]
    /\ wg' = WgAfterSpawn(IF Len(msgs) = 0 THEN 0 ELSE Len(msgs) - 1)

\* lines 100-110: one goroutine per message of the batch
Spawn(msgs) ==
    /\ tasks' = tasks \o [k \in 1..Len(msgs) |-> NewTask(msgs[k])]
    /\ wg' = WgAfterSpawn(Len(msgs))

\* lines 95, 120-131: the pending ReceiveMessage call returns msgs (kept with
\* the call where the feed records outputs, as is whether ctx was done then)
Received(msgs) ==
    [receives EXCEPT
        ![Len(receives)].out =
            IF "ReceiveMessage" \in feed.record THEN msgs ELSE @,
        ![Len(receives)].retCtxDone =
            IF "Return" \in feed.record THEN ctxDone ELSE @]

\* mutant of PcAfterReceive: a receive error ends the poll loop
PcAfterReceiveStopOnError(err) == IF err # "nil" THEN "done" ELSE "select"

\* lines 95-111 have no return or break: whatever ReceiveMessage returned,
\* the for loop goes back to the select
PcAfterReceive(err) == "select"

\* mutant of PollReceiveReturn: the loop looks at ctx once ReceiveMessage
\* has returned and gives up the batch of a cancelled invocation
PollReceiveReturnDropsAfterCancel ==
    /\ pollPc = "receiving"
    /\ \/ /\ recvSink' = Append(recvSink, "receive error")
          /\ pollPc' = PcAfterReceive("receive error")
          /\ UNCHANGED <<tasks, wg, receives>>
       \/ /\ \E batch \in Batches :
                /\ IF ctxDone THEN UNCHANGED <<tasks, wg>>
                   ELSE Spawn(Messages(batch))
                /\ receives' = Received(Messages(batch))
          /\ pollPc' = PcAfterReceive("nil")
          /\ UNCHANGED recvSink
    /\ UNCHANGED <<feed, resolver, ctxDone, subPc, ret, q, qerr, resolves, tick>>

\* lines 95-111: ReceiveMessage returns; an error goes to errorFn and leaves
\* msgs nil, a batch is fanned out; then the loop selects again
PollReceiveReturn ==
    /\ pollPc = "receiving"
    /\ \/ /\ recvSink' = Append(recvSink, "receive error")
          /\ pollPc' = PcAfterReceive("receive error")
          /\ UNCHANGED <<tasks, wg, receives>>
       \/ /\ \E batch \in Batches :
                /\ Spawn(Messages(batch))
                /\ receives' = Received(Messages(batch))
          /\ pollPc' = PcAfterReceive("nil")
          /\ UNCHANGED recvSink
    /\ UNCHANGED <<feed, resolver, ctxDone, subPc, ret, q, qerr, resolves, tick>>

(***************************************************************************)
(* A handling goroutine (subscriber.go 102-109, 133-157)                   *)
(***************************************************************************)
\* mutant of Reported: the goroutine drops handleMessage's error
ReportedNever(sink, err) == sink

\* mutant of Reported: errorFn is called with whatever handleMessage returned
ReportedUnconditionally(sink, err) == Append(sink, err)

\* lines 106-108: a non-nil error of handleMessage is passed to errorFn once
Reported(sink, err) == IF err # "nil" THEN Append(sink, err) ELSE sink

\* lines 106-108 and 103: handleMessage returned err; a non-nil err goes to
\* errorFn, then the deferred wg.Done runs
TaskExit(i, t, err) ==
    /\ tasks' = [tasks EXCEPT ![i] =
                   [t EXCEPT !.pc = "done", !.sink = Reported(t.sink, err)]]
    /\ wg' = wg - 1

\* the instance h.Message() returns to the call made for delivery i: the
\* handler allocates a message on every call
MessageInstance(i) == i

\* mutant of HandleArg: Handle is given one instance kept by the subscriber
HandleArgShared(inst, type) == [inst |-> 1, type |-> type]

\* lines 142-147, message.go 103-106: the Payload of the Message Unmarshal
\* returns is the prototype it was given, filled in
HandleArg(inst, type) == [inst |-> inst, type |-> type]

\* lines 134-147: the message is decoded into h.Message(), which is called
\* once base64 decoding succeeded; on success Handle is invoked with the
\* decoded payload
TaskStart(i) ==
    /\ tasks[i].pc = "spawned"
    /\ LET d == Decode(tasks[i].msg.Body, HandlerType)
           inst == IF base64Decode(tasks[i].msg.Body).err = "nil"
                   THEN MessageInstance(i) ELSE 0
           t == [tasks[i] EXCEPT !.inst = inst] IN
       IF d.err # "nil"
       THEN TaskExit(i, t, d.err)
       ELSE /\ tasks' = [tasks EXCEPT ![i] =
                           [t EXCEPT !.pc = "handling", !.handled = @ + 1,
                                     !.arg = HandleArg(inst, d.payload)]]
            /\ UNCHANGED wg
    /\ UNCHANGED <<feed, resolver, ctxDone, subPc, ret, q, qerr, resolves, pollPc,
                   tick, receives, recvSink>>

\* mutant of Acknowledges: the handler's error is not checked
AcknowledgesAlways(herr) == TRUE

\* mutant of Acknowledges: a goroutine that finds ctx done after Handle
\* gives the message up
AcknowledgesUnlessDone(herr) == herr = "nil" /\ ~ctxDone

\* mutant of DeleteMessageInput: the goroutine reads the loop variable, which
\* by then holds the last message spawned
DeleteMessageInputLoopVar(t) ==
    [QueueUrl |-> q, ReceiptHandle |-> tasks[Len(tasks)].msg.ReceiptHandle]

\* lines 148-150: handleMessage goes on to DeleteMessage only when Handle
\* returned nil
Acknowledges(herr) == herr = "nil"

\* lines 152-155
DeleteMessageInput(t) == [QueueUrl |-> q, ReceiptHandle |-> t.msg.ReceiptHandle]

\* line 147: whether ctx was done when Handle returned (kept where the feed
\* records)
HandleCtxDone == "Handle" \in feed.record /\ ctxDone

\* lines 147-155: Handle returns; on nil DeleteMessage is called
TaskHandleReturn(i) ==
    /\ tasks[i].pc = "handling"
    /\ \E herr \in {"nil", "handler error"} :
          LET t == [tasks[i] EXCEPT !.hret = herr,
                                    !.hctxDone = HandleCtxDone] IN
          IF Acknowledges(herr)
          THEN /\ tasks' = [tasks EXCEPT ![i] =
                              [t EXCEPT !.pc = "deleting",
                                        !.del = Append(@, DeleteMessageInput(t))]]
               /\ UNCHANGED wg
          ELSE TaskExit(i, t, herr)
    /\ UNCHANGED <<feed, resolver, ctxDone, subPc, ret, q, qerr, resolves, pollPc,
                   tick, receives, recvSink>>

\* mutant of TaskDeleteReturn: a failed DeleteMessage is issued once more
TaskDeleteReturnRetry(i) ==
    /\ tasks[i].pc = "deleting"
    /\ \E derr \in {"nil", "delete error"} :
          IF derr # "nil" /\ Len(tasks[i].del) < 2
          THEN /\ tasks' = [tasks EXCEPT ![i].del =
                                Append(@, DeleteMessageInput(tasks[i]))]
               /\ UNCHANGED wg
          ELSE TaskExit(i, tasks[i], derr)
    /\ UNCHANGED <<feed, resolver, ctxDone, subPc, ret, q, qerr, resolves,
                   pollPc, tick, receives, recvSink>>

\* lines 152-156: DeleteMessage returns and its error is handleMessage's
TaskDeleteReturn(i) ==
    /\ tasks[i].pc = "deleting"
    /\ \E derr \in {"nil", "delete error"} : TaskExit(i, tasks[i], derr)
    /\ UNCHANGED <<feed, resolver, ctxDone, subPc, ret, q, qerr, resolves, pollPc,
                   tick, receives, recvSink>>

TaskNext ==
    \E i \in 1..Len(tasks) :
        TaskStart(i) \/ TaskHandleReturn(i) \/ TaskDeleteReturn(i)

(***************************************************************************)
(* Naming (message.go 31-35, registry.go 48-63 and 144-156)                *)
(***************************************************************************)
\* message.go 33-35: the full name with "." replaced by "-"
MessageName(m) == Join(m, "-")

\* registry.go 48-63
DefaultNaming == [kind |-> "default", stage |-> "", service |-> ""]

\* registry.go 144-156
WithPrefixNaming(stage, service) ==
    [kind |-> "prefix", stage |-> stage, service |-> service]

\* mutant of TopicNameFn: the topic name carries the service as well
TopicNameFnWithService(o, m) ==
    IF o.kind = "default" THEN MessageName(m)
    ELSE o.stage \o "-" \o o.service \o "-" \o MessageName(m)

\* mutant of QueueNameFn: the queue name does not carry the service
QueueNameFnNoService(o, m) ==
    IF o.kind = "default" THEN MessageName(m)
    ELSE o.stage \o "-" \o MessageName(m)

TopicNameFn(o, m) ==
    IF o.kind = "default" THEN MessageName(m)
    ELSE o.stage \o "-" \o MessageName(m)

QueueNameFn(o, m) ==
    IF o.kind = "default" THEN MessageName(m)
    ELSE o.stage \o "-" \o o.service \o "-" \o MessageName(m)

ErrorNameFn(o, m) ==
    IF o.kind = "default" THEN MessageName(m) \o "_error"
    ELSE o.stage \o "-" \o o.service \o "-" \o MessageName(m) \o "_error"

(***************************************************************************)
(* InMemoryStore (internal/store/store.go)                                 *)
(***************************************************************************)
\* mutant of TopicKey: topic arns are kept under the key of the queue urls
TopicKeyAsQueueKey(topicName) == "queue:" \o topicName

\* store.go 15-17
TopicKey(topicName) == "topic:" \o topicName

QueueKey(queueName) == "queue:" \o queueName

\* store.go 39-49
StoreHas(key) == key \in DOMAIN items

\* mutant of StoreSet: the value is not kept
StoreSetDropped(key, value) == items

\* store.go 51-60: the items after s.set(key, value)
StoreSet(key, value) == (key :> value) @@ items

\* mutant of ItemsAfterFn: fn's error is not checked before s.set
ItemsAfterFnUnchecked(key, value, err) == StoreSet(key, value)

\* store.go 30-36: getOrSet once fn returned (value, err); an error returns
\* before s.set
ItemsAfterFn(key, value, err) ==
    IF err # "nil" THEN items ELSE StoreSet(key, value)

(***************************************************************************)
(* Registry.TopicARN / Registry.QueueURL with EnsureTopic and              *)
(* EnsureSubscription (registry.go 85-130, internal/aws service 217-315)   *)
(***************************************************************************)
Callers == 1..NumCallers

\* the addresses the broker assigns (as in the repository's tests)
TopicARNOf(tn) == "arn:aws:sns:eu-west-1:111122223333:" \o tn
QueueURLOf(qn) == "https://sqs.eu-west-1.amazonaws.com/111122223333/" \o qn
QueueARNOf(qn) == "arn:aws:sqs:eu-west-1:111122223333:" \o qn

IdleCaller ==
    [pc |-> "idle", op |-> "none", ta |-> "", eqa |-> "", mqu |-> "",
     mqa |-> "", log |-> <<>>, val |-> "", err |-> "none",
     hitT |-> FALSE, hitQ |-> FALSE, failedAt |-> "", subTopic |-> ""]

NoProv == [topicCalls |-> 0, topicFails |-> 0, subCalls |-> 0, subFails |-> 0]

RegInit ==
    /\ items = <<>>
    /\ callers = [p \in Callers |-> IdleCaller]
    /\ started = 0
    /\ overlapped = FALSE
    /\ prov = NoProv

Tn == TopicNameFn(opts, TestMessage)
Qn == QueueNameFn(opts, TestMessage)
Eqn == ErrorNameFn(opts, TestMessage)

\* a goroutine calls TopicARN or QueueURL (registry.go 85-86, 100-101)
RegBegin(p) ==
    /\ callers[p].pc = "idle"
    /\ started < MaxCalls
    /\ started' = started + 1
    /\ overlapped' = (overlapped \/ \E o \in Callers : callers[o].pc # "idle")
    /\ \E op \in {"TopicARN", "QueueURL"} :
          callers' = [callers EXCEPT ![p] =
                        [IdleCaller EXCEPT !.pc = "topicGet", !.op = op]]
    /\ UNCHANGED <<opts, items, prov>>

\* the call returns (value, err) to its caller
Returned(c, value, err) == [c EXCEPT !.pc = "idle", !.val = value, !.err = err]

\* mutant of TopicGet: QueueURL ensures the topic without asking the store
TopicGetQueueURLUncached(p) ==
    LET c == callers[p] IN
    /\ c.pc = "topicGet"
    /\ IF StoreHas(TopicKey(Tn)) /\ c.op = "TopicARN"
       THEN /\ callers' = [callers EXCEPT ![p] =
                   Returned([c EXCEPT !.hitT = TRUE], items[TopicKey(Tn)], "nil")]
            /\ UNCHANGED prov
       ELSE /\ callers' = [callers EXCEPT ![p].pc = "CreateTopic"]
            /\ prov' = [prov EXCEPT !.topicCalls = @ + 1]
    /\ UNCHANGED <<opts, items, started, overlapped>>

\* getOrSet's s.get for the topic key (store.go 25-28): a hit returns the
\* value without calling fn; a miss calls fn, which calls EnsureTopic
TopicGet(p) ==
    LET c == callers[p] IN
    /\ c.pc = "topicGet"
    /\ IF StoreHas(TopicKey(Tn))
       THEN /\ callers' = [callers EXCEPT ![p] =
                   IF c.op = "TopicARN"
                   THEN Returned([c EXCEPT !.hitT = TRUE], items[TopicKey(Tn)], "nil")
                   ELSE [c EXCEPT !.hitT = TRUE, !.ta = items[TopicKey(Tn)],
                                  !.pc = "queueGet"]]
            /\ UNCHANGED prov
       ELSE /\ callers' = [callers EXCEPT ![p].pc = "CreateTopic"]
            /\ prov' = [prov EXCEPT !.topicCalls = @ + 1]
    /\ UNCHANGED <<opts, items, started, overlapped>>

\* what sns CreateTopic may return: an error, an arn, or an arn that
\* accountIDFromARN rejects
CreateTopicResults(tn) ==
    {[arn |-> "", err |-> "error"], [arn |-> TopicARNOf(tn), err |-> "nil"],
     [arn |-> "invalid", err |-> "nil"]}

\* mutant of CreateTopic: the error of SNSAccessPolicy is not checked
CreateTopicPolicyUnchecked(p) ==
    LET c == [callers[p] EXCEPT !.log = Append(@, "CreateTopic")] IN
    /\ callers[p].pc = "CreateTopic"
    /\ \E r \in CreateTopicResults(Tn) :
          IF r.err # "nil"
          THEN /\ callers' = [callers EXCEPT ![p] =
                     Returned([c EXCEPT !.failedAt = "CreateTopic"], "", r.err)]
               /\ prov' = [prov EXCEPT !.topicFails = @ + 1]
          ELSE /\ callers' = [callers EXCEPT ![p] =
                                 [c EXCEPT !.ta = r.arn, !.pc = "SetTopicAttributes"]]
               /\ UNCHANGED prov
    /\ UNCHANGED <<opts, items, started, overlapped>>

\* service 218-228: CreateTopic, then SNSAccessPolicy of the returned arn
CreateTopic(p) ==
    LET c == [callers[p] EXCEPT !.log = Append(@, "CreateTopic")] IN
    /\ callers[p].pc = "CreateTopic"
    /\ \E r \in CreateTopicResults(Tn) :
          IF r.err # "nil"
          THEN /\ callers' = [callers EXCEPT ![p] =
                     Returned([c EXCEPT !.failedAt = "CreateTopic"], "", r.err)]
               /\ prov' = [prov EXCEPT !.topicFails = @ + 1]
          ELSE IF r.arn = "invalid"
          THEN /\ callers' = [callers EXCEPT ![p] =
                     Returned([c EXCEPT !.failedAt = "SNSAccessPolicy"], "",
                              "invalid arn: invalid")]
               /\ prov' = [prov EXCEPT !.topicFails = @ + 1]
          ELSE /\ callers' = [callers EXCEPT ![p] =
                                 [c EXCEPT !.ta = r.arn, !.pc = "SetTopicAttributes"]]
               /\ UNCHANGED prov
    /\ UNCHANGED <<opts, items, started, overlapped>>

\* service 230-243, store.go 30-36, registry.go 112-116: SetTopicAttributes;
\* on success the arn is stored and TopicARN returns it, QueueURL goes on
SetTopicAttributes(p) ==
    LET c == [callers[p] EXCEPT !.log = Append(@, "SetTopicAttributes")] IN
    /\ callers[p].pc = "SetTopicAttributes"
    /\ \/ /\ callers' = [callers EXCEPT ![p] =
                Returned([c EXCEPT !.failedAt = "SetTopicAttributes"], "", "error")]
          /\ prov' = [prov EXCEPT !.topicFails = @ + 1]
          /\ items' = ItemsAfterFn(TopicKey(Tn), "", "error")
       \/ /\ items' = ItemsAfterFn(TopicKey(Tn), c.ta, "nil")
          /\ callers' = [callers EXCEPT ![p] =
                IF c.op = "TopicARN" THEN Returned(c, c.ta, "nil")
                ELSE [c EXCEPT !.pc = "queueGet"]]
          /\ UNCHANGED prov
    /\ UNCHANGED <<opts, started, overlapped>>

\* getOrSet's s.get for the queue key (registry.go 116-117, store.go 25-28):
\* a miss calls fn, which calls EnsureSubscription
QueueGet(p) ==
    LET c == callers[p] IN
    /\ c.pc = "queueGet"
    /\ IF StoreHas(QueueKey(Qn))
       THEN /\ callers' = [callers EXCEPT ![p] =
                   Returned([c EXCEPT !.hitQ = TRUE], items[QueueKey(Qn)], "nil")]
            /\ UNCHANGED prov
       ELSE /\ callers' = [callers EXCEPT ![p].pc = "CreateQueue:error"]
            /\ prov' = [prov EXCEPT !.subCalls = @ + 1]
    /\ UNCHANGED <<opts, items, started, overlapped>>

\* the caller's record once the broker call it is about to make is logged;
\* the TopicArn of a SubscribeInput is req.TopicARN (service 279-283)
Logged(p) ==
    [callers[p] EXCEPT !.log = Append(@, callers[p].pc),
                       !.subTopic = IF callers[p].pc = "Subscribe"
                                    THEN callers[p].ta ELSE @]

\* mutant of SubscriptionCall: after a failed broker call the next call of
\* the sequence is still issued before the error is returned
SubscriptionCallOneMore(p, pc, next) ==
    /\ callers[p].pc = pc
    /\ \/ /\ callers' = [callers EXCEPT ![p] =
                Returned([Logged(p) EXCEPT
                             !.failedAt = pc,
                             !.log = IF next.pc = "idle" THEN @
                                     ELSE Append(@, next.pc)], "", "error")]
          /\ prov' = [prov EXCEPT !.subFails = @ + 1]
       \/ /\ callers' = [callers EXCEPT ![p] = next]
          /\ UNCHANGED prov
    /\ UNCHANGED <<opts, started, overlapped>>

\* one broker call of EnsureSubscription: it fails and QueueURL returns the
\* error, or it succeeds and the caller goes on as `next`
SubscriptionCall(p, pc, next) ==
    /\ callers[p].pc = pc
    /\ \/ /\ callers' = [callers EXCEPT ![p] =
                Returned([Logged(p) EXCEPT !.failedAt = pc], "", "error")]
          /\ prov' = [prov EXCEPT !.subFails = @ + 1]
       \/ /\ callers' = [callers EXCEPT ![p] = next]
          /\ UNCHANGED prov
    /\ UNCHANGED <<opts, started, overlapped>>

\* service 248 and 297-302: CreateQueue for the error queue
CreateErrorQueue(p) ==
    /\ SubscriptionCall(p, "CreateQueue:error",
          [Logged(p) EXCEPT !.pc = "GetQueueAttributes:error"])
    /\ UNCHANGED items

\* service 304-314: GetQueueAttributes reads the error queue's arn
GetErrorQueueAttributes(p) ==
    /\ SubscriptionCall(p, "GetQueueAttributes:error",
          [Logged(p) EXCEPT !.eqa = QueueARNOf(Eqn), !.pc = "CreateQueue:main"])
    /\ UNCHANGED items

\* service 253 and 297-302: CreateQueue for the main queue
CreateMainQueue(p) ==
    /\ SubscriptionCall(p, "CreateQueue:main",
          [Logged(p) EXCEPT !.mqu = QueueURLOf(Qn),
                            !.pc = "GetQueueAttributes:main"])
    /\ UNCHANGED items

\* service 304-314: GetQueueAttributes reads the main queue's arn
GetMainQueueAttributes(p) ==
    /\ SubscriptionCall(p, "GetQueueAttributes:main",
          [Logged(p) EXCEPT !.mqa = QueueARNOf(Qn), !.pc = "SetQueueAttributes"])
    /\ UNCHANGED items

\* mutant of SetQueueAttributes: the policies are never set on the main queue
SetQueueAttributesSkipped(p) ==
    /\ callers[p].pc = "SetQueueAttributes"
    /\ callers' = [callers EXCEPT ![p].pc = "Subscribe"]
    /\ UNCHANGED <<opts, items, started, overlapped, prov>>

\* service 258-277: the access and redrive policies are set on the main queue
SetQueueAttributes(p) ==
    /\ SubscriptionCall(p, "SetQueueAttributes",
          [Logged(p) EXCEPT !.pc = "Subscribe"])
    /\ UNCHANGED items

\* service 279-292, store.go 30-36: the queue is subscribed to the topic; on
\* success the main queue's url is stored and returned
SnsSubscribe(p) ==
    /\ SubscriptionCall(p, "Subscribe",
          Returned(Logged(p), callers[p].mqu, "nil"))
    /\ items' = ItemsAfterFn(QueueKey(Qn), callers'[p].val, callers'[p].err)

(***************************************************************************)
(* The InMemoryStore called directly with arbitrary value functions        *)
(* (internal/store/store.go 15-37)                                         *)
(***************************************************************************)
\* what a value function may return
FnResults ==
    {[v |-> "first", err |-> "nil"], [v |-> "second", err |-> "nil"],
     [v |-> "", err |-> "error"], [v |-> "partial", err |-> "error"]}

NoFn == [v |-> "", err |-> "none"]

IdleClient ==
    [pc |-> "idle", key |-> "", fn |-> NoFn, val |-> "", err |-> "none",
     hit |-> FALSE, called |-> FALSE]

StoreInit ==
    /\ clients = [p \in Callers |-> IdleClient]
    /\ firstSet = <<>>

\* the name every store call of the model is made for
StoreName == MessageName(TestMessage)

\* a goroutine calls GetOrSetTopicARN or GetOrSetQueueURL (lines 15-22)
StoreBegin(p) ==
    /\ clients[p].pc = "idle"
    /\ started < MaxStoreCalls
    /\ started' = started + 1
    /\ overlapped' = (overlapped \/ \E o \in Callers : clients[o].pc # "idle")
    /\ \E key \in {TopicKey(StoreName), QueueKey(StoreName)}, fn \in FnResults :
          clients' = [clients EXCEPT ![p] =
                        [IdleClient EXCEPT !.pc = "get", !.key = key, !.fn = fn]]
    /\ UNCHANGED <<items, firstSet>>

\* the call returns (value, err); the value function is dropped
StoreReturned(c, value, err) ==
    [c EXCEPT !.pc = "idle", !.fn = NoFn, !.val = value, !.err = err]

\* lines 25-28: s.get under the read lock; a hit returns the stored value
StoreGet(p) ==
    LET c == clients[p] IN
    /\ c.pc = "get"
    /\ clients' = [clients EXCEPT ![p] =
                     IF StoreHas(c.key)
                     THEN StoreReturned([c EXCEPT !.hit = TRUE], items[c.key], "nil")
                     ELSE [c EXCEPT !.pc = "fn"]]
    /\ UNCHANGED <<items, started, overlapped, firstSet>>

\* lines 30-36: fn is invoked; its error is returned with an empty value,
\* its value is written by s.set under the write lock and returned
StoreFn(p) ==
    LET c == clients[p] IN
    /\ c.pc = "fn"
    /\ clients' = [clients EXCEPT ![p] =
                     StoreReturned([c EXCEPT !.called = TRUE],
                                   IF c.fn.err # "nil" THEN "" ELSE c.fn.v,
                                   c.fn.err)]
    /\ items' = ItemsAfterFn(c.key, c.fn.v, c.fn.err)
    /\ firstSet' = IF c.fn.err = "nil" /\ c.key \notin DOMAIN firstSet
                   THEN (c.key :> c.fn.v) @@ firstSet
                   ELSE firstSet
    /\ UNCHANGED <<started, overlapped>>

regVars == <<opts, items, callers, started, overlapped, prov>>

storeVars == <<clients, firstSet>>

(***************************************************************************)
(* Publisher.Publish (publisher.go 27-66, message.go 38-88)                *)
(***************************************************************************)
\* the messages passed to Publish: a testpb.Message, or a nil proto.Message
NilMessage == <<>>
PubMessages == {TestMessage, NilMessage}

\* Marshal: anypb.New rejects a nil message; otherwise the bytes are an
\* envelope whose Any body carries the message's full name
Marshal(m) ==
    IF m = NilMessage
    THEN [err |-> "invalid nil source message", bytes |-> "", type |-> ""]
    ELSE [err |-> "nil", bytes |-> "envelope", type |-> Join(m, ".")]

\* base64.StdEncoding.EncodeToString of the marshalled bytes (line 58)
base64Encode(mar) == Body("b64", mar.bytes, mar.type)

\* mutant of TopicARNFnResults: the default resolver reports no error
TopicARNFnResultsNoDefaultError(r) ==
    IF r = "default" THEN {[arn |-> "", err |-> "nil"]}
    ELSE {[arn |-> "topic", err |-> "nil"], [arn |-> "", err |-> "resolve error"]}

\* what topicARNFn may return: NewPublisher's default always fails
TopicARNFnResults(r) ==
    IF r = "default" THEN {[arn |-> "", err |-> "topic not found"]}
    ELSE {[arn |-> "topic", err |-> "nil"], [arn |-> "", err |-> "resolve error"]}

NewPublish(m) ==
    [m |-> m, pc |-> "marshal", msg |-> NilMessage, arn |-> "", ret |-> "none",
     merr |-> "none", rerr |-> "none", perr |-> "none", sent |-> <<>>]

PubInit ==
    /\ topicFn = "default"
    /\ pubCalls = <<>>
    /\ snsLog = <<>>

\* a goroutine calls Publish (line 45)
PubBegin ==
    /\ Len(pubCalls) < MaxPublishes
    /\ \E m \in PubMessages : pubCalls' = Append(pubCalls, NewPublish(m))
    /\ UNCHANGED <<topicFn, snsLog>>

\* lines 46-49: Marshal; its error is returned
PubMarshal(i) ==
    LET c == pubCalls[i]
        mar == Marshal(c.m) IN
    /\ c.pc = "marshal"
    /\ pubCalls' = [pubCalls EXCEPT ![i] =
                      IF mar.err # "nil"
                      THEN [c EXCEPT !.pc = "returned", !.merr = mar.err,
                                     !.ret = mar.err]
                      ELSE [c EXCEPT !.pc = "resolve", !.merr = "nil",
                                     !.msg = base64Encode(mar)]]
    /\ UNCHANGED <<topicFn, snsLog>>

\* lines 56-59
PublishInput(c, arn) == [TopicArn |-> arn, Message |-> c.msg]

\* lines 51-59: topicARNFn; its error is returned, otherwise the SNS client's
\* Publish is called with the resolved arn
PubResolve(i) ==
    LET c == pubCalls[i] IN
    /\ c.pc = "resolve"
    /\ \E r \in TopicARNFnResults(topicFn) :
          IF r.err # "nil"
          THEN /\ pubCalls' = [pubCalls EXCEPT ![i] =
                                 [c EXCEPT !.pc = "returned", !.rerr = r.err,
                                           !.ret = r.err]]
               /\ UNCHANGED snsLog
          ELSE /\ pubCalls' = [pubCalls EXCEPT ![i] =
                                 [c EXCEPT !.pc = "publishing", !.rerr = "nil",
                                           !.arn = r.arn,
                                           !.sent = Append(@, PublishInput(c, r.arn))]]
               /\ snsLog' = Append(snsLog, PublishInput(c, r.arn))
    /\ UNCHANGED topicFn

\* mutant of PublishResult: the SNS client's error is not returned
PublishResultSwallowed(perr) == "nil"

\* lines 60-65: the SNS client's error, or nil, is what Publish returns
PublishResult(perr) == perr

\* lines 56-65: the SNS client's Publish returns
PubPublishReturn(i) ==
    LET c == pubCalls[i] IN
    /\ c.pc = "publishing"
    /\ \E perr \in {"nil", "publish error"} :
          pubCalls' = [pubCalls EXCEPT ![i] =
                         [c EXCEPT !.pc = "returned", !.perr = perr,
                                   !.ret = PublishResult(perr)]]
    /\ UNCHANGED <<topicFn, snsLog>>

pubVars == <<topicFn, pubCalls, snsLog>>

(***************************************************************************)
(* The envelope codec: Marshal / wrap and Unmarshal / unwrap               *)
(* (message.go 38-107)                                                     *)
(***************************************************************************)
\* a time.Time: an instant and a location; time.Time{} is instant 0 in UTC
Time(instant, loc) == [instant |-> instant, loc |-> loc]
ZeroTime == Time(0, "UTC")

\* the readings of time.Now() and the values of uuid.NewString()
Clock == {100, 200}
UUIDs == {"uuid-1", "uuid-2"}

\* payloads: a proto message of a type (its full name as segments) with one
\* string field, or a nil proto.Message
OtherMessage == <<"pram", "test", "Other">>
Payload(type, value) == [type |-> type, value |-> value]
NilPayload == Payload(NilMessage, "")
CodecPayloads ==
    {Payload(t, v) : t \in {TestMessage, OtherMessage}, v \in {"", "value"}}
        \cup {NilPayload}

\* a metadata option function, as the assignment it makes to *Metadata
SetField(field, value) == [field |-> field, value |-> value]

\* WithCorrelationID (lines 59-63)
WithCorrelationID(id) == SetField("CorrelationID", id)

\* the optFns lists passed to Marshal
OptFns ==
    {<<>>,
     <<WithCorrelationID("correlation-id")>>,
     <<WithCorrelationID("")>>,
     <<SetField("ID", "")>>,
     <<SetField("Type", "custom")>>,
     <<SetField("Timestamp", ZeroTime)>>,
     <<SetField("Timestamp", Time(300, "Local"))>>,
     <<WithCorrelationID("correlation-id"), SetField("ID", "custom-id")>>}

RECURSIVE ApplyOpts(_, _)
\* lines 79-81: every option function is applied, in order
ApplyOpts(md, fns) ==
    IF fns = <<>> THEN md
    ELSE ApplyOpts([md EXCEPT ![Head(fns).field] = Head(fns).value], Tail(fns))

\* lines 73-81: a fresh ID, the payload's full name and time.Now().UTC(),
\* then the option functions
EncodeMetadata(m, fns, id, now) ==
    ApplyOpts([ID |-> id, Type |-> Join(m.type, "."), CorrelationID |-> "",
               Timestamp |-> Time(now, "UTC")], fns)

\* anypb.New: the type url and the payload's own encoding
AnyNew(m) ==
    [type_url |-> "type.googleapis.com/" \o Join(m.type, "."), value |-> m.value]

\* lines 65-88: wrap; anypb.New rejects a nil message.  timestamppb.New
\* keeps the instant of md.Timestamp and drops its location.
wrap(m, fns, id, now) ==
    IF m = NilPayload
    THEN [err |-> "invalid nil source message"]
    ELSE LET md == EncodeMetadata(m, fns, id, now) IN
         [err |-> "nil",
          wm |-> [id |-> md.ID, type |-> md.Type,
                  correlation_id |-> md.CorrelationID,
                  timestamp |-> md.Timestamp.instant,
                  body |-> AnyNew(m)]]

\* proto.Marshal of the envelope (line 44): the bytes carry its fields
protoMarshal(wm) == [err |-> "nil", bytes |-> <<wm>>]

\* lines 38-45
MarshalEnvelope(m, fns, id, now) ==
    LET w == wrap(m, fns, id, now) IN
    IF w.err # "nil" THEN [err |-> w.err, bytes |-> <<>>]
    ELSE protoMarshal(w.wm)

\* mutant of unwrap: the metadata is not copied from the envelope
unwrapNoMetadata(wrapped, proto) ==
    IF wrapped.body.type_url # "type.googleapis.com/" \o Join(proto.type, ".")
    THEN [err |-> "mismatched message type"]
    ELSE [err |-> "nil",
          msg |-> [Payload |-> Payload(proto.type, wrapped.body.value),
                   Metadata |-> [ID |-> "", Type |-> "", CorrelationID |-> "",
                                 Timestamp |-> ZeroTime]]]

\* lines 90-107: unwrap; AsTime yields the instant in UTC, UnmarshalTo
\* checks the type url against the prototype and resets the prototype
unwrap(wrapped, proto) ==
    IF wrapped.body.type_url # "type.googleapis.com/" \o Join(proto.type, ".")
    THEN [err |-> "mismatched message type"]
    ELSE [err |-> "nil",
          msg |-> [Payload |-> Payload(proto.type, wrapped.body.value),
                   Metadata |-> [ID |-> wrapped.id, Type |-> wrapped.type,
                                 CorrelationID |-> wrapped.correlation_id,
                                 Timestamp |-> Time(wrapped.timestamp, "UTC")]]]

\* lines 48-56: bytes that are no envelope fail in proto.Unmarshal
UnmarshalEnvelope(bytes, proto) ==
    IF bytes = <<>> THEN [err |-> "proto: cannot parse"]
    ELSE unwrap(bytes[1], proto)

NoResult == [err |-> "none"]

CodecIdle ==
    [pc |-> "idle", m |-> NilPayload, fns |-> <<>>, id |-> "", now |-> 0,
     proto |-> NilPayload, enc |-> NoResult, dec |-> NoResult]

CodecInit == codec = CodecIdle

\* the prototypes passed to Unmarshal: a message of either type, possibly
\* holding a value from an earlier use
Prototypes == {Payload(t, v) : t \in {TestMessage, OtherMessage}, v \in {"", "stale"}}

\* Marshal(m, optFns...) is called and returns
CodecMarshal ==
    /\ codec.pc = "idle"
    /\ \E m \in CodecPayloads, fns \in OptFns, id \in UUIDs, now \in Clock :
          codec' = [codec EXCEPT !.pc = "encoded", !.m = m, !.fns = fns,
                                 !.id = id, !.now = now,
                                 !.enc = MarshalEnvelope(m, fns, id, now)]

\* Unmarshal(b, prototype) is called on the bytes Marshal returned
CodecUnmarshal ==
    /\ codec.pc = "encoded"
    /\ codec.enc.err = "nil"
    /\ \E proto \in Prototypes :
          codec' = [codec EXCEPT !.pc = "decoded", !.proto = proto,
                                 !.dec = UnmarshalEnvelope(codec.enc.bytes, proto)]

codecVars == <<codec>>

(***************************************************************************)
(* Two Registries built with naming conventions (registry.go 48-82 and     *)
(* 144-156)                                                                *)
(***************************************************************************)
Stages == {"dev", "a", "a-b"}
Services == {"svc", "b", "c", "b-c"}

\* the conventions a Registry may be built with
Conventions ==
    {DefaultNaming} \cup {WithPrefixNaming(st, sv) : st \in Stages, sv \in Services}

NoNames == [topic |-> "", queue |-> "", error |-> ""]

\* two Registries that have resolved nothing
NamingIdle == [r \in 1..2 |-> [opts |-> DefaultNaming, names |-> NoNames]]

\* registry.go 86, 101, 114, 117: the names Registry r uses for the payload
ResolveNames(r) ==
    /\ regs[r].names = NoNames
    /\ regs' = [regs EXCEPT ![r].names =
                   [topic |-> TopicNameFn(regs[r].opts, TestMessage),
                    queue |-> QueueNameFn(regs[r].opts, TestMessage),
                    error |-> ErrorNameFn(regs[r].opts, TestMessage)]]

namingVars == <<regs>>

(***************************************************************************)
(* Several Subscribe invocations on one Subscriber, one goroutine and one  *)
(* handler each (README "Subscribe", subscriber.go 77-157).  The ticker    *)
(* and the DeleteMessage return are not modelled separately here.          *)
(***************************************************************************)
Handlers == {"handlerA", "handlerB"}

\* the payload type of each handler's Message()
HandlerMessage(h) == IF h = "handlerA" THEN TestMessage ELSE OtherMessage

\* WithQueueRegistry: the queue url the Registry resolves for a handler
HandlerQueue(h) == QueueURLOf(QueueNameFn(opts, HandlerMessage(h)))

IdleSub ==
    [pc |-> "idle", ret |-> "none", ctxDone |-> FALSE, q |-> "", wg |-> 0,
     pollPc |-> "idle", receives |-> <<>>, tasks |-> <<>>]

MultiInit == subs = [h \in Handlers |-> IdleSub]

\* the context passed to h's Subscribe call is cancelled
MCancel(h) ==
    /\ subs[h].pc # "returned"
    /\ ~subs[h].ctxDone
    /\ subs' = [subs EXCEPT ![h].ctxDone = TRUE]

\* lines 78-86: Subscribe(ctx, h) resolves h's queue; on failure it returns
\* the error, otherwise it starts its poll goroutine
MSubscribe(h) ==
    /\ subs[h].pc = "idle"
    /\ \/ subs' = [subs EXCEPT ![h].pc = "returned", ![h].ret = "resolve error"]
       \/ subs' = [subs EXCEPT ![h].pc = "waiting", ![h].q = HandlerQueue(h),
                               ![h].wg = 1, ![h].pollPc = "select"]

\* mutant of MQueue: the queue url is kept in a field of the Subscriber that
\* handlerB's call wrote
MQueueShared(h) == subs["handlerB"].q

\* the local q of h's Subscribe call, captured by its goroutines
MQueue(h) == subs[h].q

\* lines 94-95: a tick arrives and ReceiveMessage is called; `after` records
\* the calls that had returned by then
MPoll(h) ==
    /\ subs[h].pollPc = "select"
    /\ Len(subs[h].receives) < MultiReceives
    /\ subs' = [subs EXCEPT
                  ![h].pollPc = "receiving",
                  ![h].receives = Append(@,
                      [QueueUrl |-> MQueue(h),
                       after |-> {g \in Handlers : subs[g].pc = "returned"}])]

\* a message received from a queue: the queue it came from and the payload
\* type its envelope carries
MMsg(from, type) ==
    [from |-> from, type |-> type, pc |-> "spawned", by |-> "", del |-> <<>>]

\* lines 95-110: ReceiveMessage returns messages of the polled queue and one
\* goroutine is spawned for each
MReceiveReturn(h) ==
    LET c == subs[h]
        from == c.receives[Len(c.receives)].QueueUrl IN
    /\ c.pollPc = "receiving"
    /\ \E n \in 0..Min(MaxNumberOfMessages, MultiTasks - Len(c.tasks)) :
       \E types \in [1..n -> {TestMessage, OtherMessage}] :
          subs' = [subs EXCEPT
                     ![h].pollPc = "select",
                     ![h].wg = @ + n,
                     ![h].tasks = @ \o [k \in 1..n |-> MMsg(from, types[k])]]

\* lines 92-93 and 87
MPollDone(h) ==
    /\ subs[h].pollPc = "select"
    /\ subs[h].ctxDone
    /\ subs' = [subs EXCEPT ![h].pollPc = "done", ![h].wg = @ - 1]

\* lines 136-147: the message is decoded into h.Message(); a payload of
\* another type is an error, otherwise h.Handle is invoked
MTaskStart(h, i) ==
    LET t == subs[h].tasks[i] IN
    /\ t.pc = "spawned"
    /\ IF t.type # HandlerMessage(h)
       THEN subs' = [subs EXCEPT ![h].tasks[i].pc = "done", ![h].wg = @ - 1]
       ELSE subs' = [subs EXCEPT ![h].tasks[i].pc = "handling",
                                 ![h].tasks[i].by = h]

\* lines 147-156 and 103: Handle returns; on nil DeleteMessage is called with
\* the call's queue url; the goroutine ends
MTaskHandleReturn(h, i) ==
    LET t == subs[h].tasks[i] IN
    /\ t.pc = "handling"
    /\ \/ subs' = [subs EXCEPT ![h].tasks[i].pc = "done", ![h].wg = @ - 1]
       \/ subs' = [subs EXCEPT ![h].tasks[i].pc = "done", ![h].wg = @ - 1,
                               ![h].tasks[i].del = Append(@, MQueue(h))]

\* lines 115-116
MReturn(h) ==
    /\ subs[h].pc = "waiting"
    /\ subs[h].wg = 0
    /\ subs' = [subs EXCEPT ![h].pc = "returned", ![h].ret = "nil"]

multiVars == <<subs>>

(***************************************************************************)
(* The package logger: SetLogger and Logf (log.go)                         *)
(***************************************************************************)
\* the loggers a caller may install, and the arguments of SetLogger
Loggers == {"loggerA", "loggerB"}
SetLoggerArgs == Loggers \cup {"nil"}

\* the package variable starts as the no-op logger; nothing was called
LogInit ==
    log = [logger |-> "noop", lastSet |-> "none", ops |-> 0, panicked |-> FALSE,
           calls |-> <<>>, out |-> [l \in Loggers |-> <<>>]]

\* mutant of SetLoggerResult: nil is stored as it is
SetLoggerNoNilCheck(l) == l

\* SetLogger: a nil argument is replaced by a new no-op logger
SetLoggerResult(l) == IF l = "nil" THEN "noop" ELSE l

\* SetLogger(l)
SetLogger(l) ==
    /\ log.ops < MaxLogOps
    /\ ~log.panicked
    /\ log' = [log EXCEPT !.logger = SetLoggerResult(l), !.lastSet = l,
                          !.ops = @ + 1]

\* Logf(line): logger.Printf is called on the package variable; a nil
\* interface value panics, the no-op logger drops the line
Logf(line) ==
    /\ log.ops < MaxLogOps
    /\ ~log.panicked
    /\ log' = [log EXCEPT
                 !.ops = @ + 1,
                 !.calls = Append(@, [line |-> line, lastSet |-> log.lastSet]),
                 !.panicked = (log.logger = "nil"),
                 !.out = IF log.logger \in Loggers
                         THEN [@ EXCEPT ![log.logger] = Append(@, line)]
                         ELSE @]

logVars == <<log>>

\* everything but the Subscribe invocation, and everything but the Registry
notSub == <<regVars, storeVars, pubVars, codecVars, namingVars, multiVars, logVars>>
notReg == <<subVars, storeVars, pubVars, codecVars, namingVars, multiVars, logVars>>

vars == <<subVars, regVars, storeVars, pubVars, codecVars, namingVars,
          multiVars, logVars>>

\* every part but the logger
NoLog == <<subVars, regVars, storeVars, pubVars, codecVars, namingVars, multiVars>>

\* one Subscribe invocation; the Registry is not used
Init ==
    /\ SubInit /\ feed = SubscribeFeed
    /\ RegInit /\ opts = DefaultNaming
    /\ StoreInit
    /\ PubInit
    /\ CodecInit
    /\ regs = NamingIdle
    /\ MultiInit
    /\ LogInit

Next ==
    \/ Cancel /\ UNCHANGED notSub
    \/ SubscribeResolve /\ UNCHANGED notSub
    \/ SubscribeReturn /\ UNCHANGED notSub
    \/ Tick /\ UNCHANGED notSub
    \/ PollDone /\ UNCHANGED notSub
    \/ PollTick /\ UNCHANGED notSub
    \/ PollReceiveReturn /\ UNCHANGED notSub
    \/ \E i \in 1..Len(tasks) : TaskStart(i) /\ UNCHANGED notSub
    \/ \E i \in 1..Len(tasks) : TaskHandleReturn(i) /\ UNCHANGED notSub
    \/ \E i \in 1..Len(tasks) : TaskDeleteReturn(i) /\ UNCHANGED notSub

Spec == Init /\ [][Next]_vars

\* The Go scheduler runs every runnable goroutine, in-flight calls return,
\* and a select whose ctx.Done() case is ready again and again takes it
FairSpec ==
    /\ Spec
    /\ WF_vars(SubscribeReturn /\ UNCHANGED notSub)
    /\ WF_vars(PollReceiveReturn /\ UNCHANGED notSub)
    /\ SF_vars(PollDone /\ UNCHANGED notSub)
    /\ WF_vars(TaskNext /\ UNCHANGED notSub)

\* FairSpec, and the ticker keeps firing every ReceiveInterval (line 88) and
\* a select with only the tick case ready takes it
PollFairSpec ==
    /\ FairSpec
    /\ WF_vars(Tick /\ UNCHANGED notSub)
    /\ WF_vars(PollTick /\ UNCHANGED notSub)

\* one Subscribe invocation on a queue holding messages of every kind
DecodeInit ==
    /\ SubInit /\ feed = DecodeFeed
    /\ RegInit /\ opts = DefaultNaming
    /\ StoreInit
    /\ PubInit
    /\ CodecInit
    /\ regs = NamingIdle
    /\ MultiInit
    /\ LogInit

DecodeSpec == DecodeInit /\ [][Next]_vars

\* one Subscribe invocation whose ReceiveMessage outputs are recorded
BatchInit ==
    /\ SubInit /\ feed = BatchFeed
    /\ RegInit /\ opts = DefaultNaming
    /\ StoreInit
    /\ PubInit
    /\ CodecInit
    /\ regs = NamingIdle
    /\ MultiInit
    /\ LogInit

BatchSpec == BatchInit /\ [][Next]_vars

\* one Subscribe invocation on the CancelFeed, cancelled at any moment,
\* under the scheduling of FairSpec
CancelInit ==
    /\ SubInit /\ feed = CancelFeed
    /\ RegInit /\ opts = DefaultNaming
    /\ StoreInit
    /\ PubInit
    /\ CodecInit
    /\ regs = NamingIdle
    /\ MultiInit
    /\ LogInit

CancelFairSpec ==
    /\ CancelInit /\ [][Next]_vars
    /\ WF_vars(SubscribeReturn /\ UNCHANGED notSub)
    /\ WF_vars(PollReceiveReturn /\ UNCHANGED notSub)
    /\ SF_vars(PollDone /\ UNCHANGED notSub)
    /\ WF_vars(TaskNext /\ UNCHANGED notSub)

\* the naming options a Registry is built with
RegistryOptions == {DefaultNaming, WithPrefixNaming("dev", "a")}

\* goroutines calling one Registry; no Subscribe invocation runs
RegInitAll ==
    /\ SubInit /\ feed = SubscribeFeed /\ resolver = "default"
    /\ RegInit /\ opts \in RegistryOptions
    /\ StoreInit
    /\ PubInit
    /\ CodecInit
    /\ regs = NamingIdle
    /\ MultiInit
    /\ LogInit

RegNext ==
    \/ \E p \in Callers : RegBegin(p) /\ UNCHANGED notReg
    \/ \E p \in Callers : TopicGet(p) /\ UNCHANGED notReg
    \/ \E p \in Callers : CreateTopic(p) /\ UNCHANGED notReg
    \/ \E p \in Callers : SetTopicAttributes(p) /\ UNCHANGED notReg
    \/ \E p \in Callers : QueueGet(p) /\ UNCHANGED notReg
    \/ \E p \in Callers : CreateErrorQueue(p) /\ UNCHANGED notReg
    \/ \E p \in Callers : GetErrorQueueAttributes(p) /\ UNCHANGED notReg
    \/ \E p \in Callers : CreateMainQueue(p) /\ UNCHANGED notReg
    \/ \E p \in Callers : GetMainQueueAttributes(p) /\ UNCHANGED notReg
    \/ \E p \in Callers : SetQueueAttributes(p) /\ UNCHANGED notReg
    \/ \E p \in Callers : SnsSubscribe(p) /\ UNCHANGED notReg

RegSpec == RegInitAll /\ [][RegNext]_vars

\* goroutines calling one InMemoryStore; neither Subscribe nor Registry runs
StoreInitAll ==
    /\ SubInit /\ feed = SubscribeFeed /\ resolver = "default"
    /\ RegInit /\ opts = DefaultNaming
    /\ StoreInit
    /\ PubInit
    /\ CodecInit
    /\ regs = NamingIdle
    /\ MultiInit
    /\ LogInit

StoreNext ==
    \/ \E p \in Callers :
          StoreBegin(p) /\ UNCHANGED <<subVars, opts, callers, prov, pubVars, codecVars, namingVars, multiVars, logVars>>
    \/ \E p \in Callers :
          StoreGet(p) /\ UNCHANGED <<subVars, opts, callers, prov, pubVars, codecVars, namingVars, multiVars, logVars>>
    \/ \E p \in Callers :
          StoreFn(p) /\ UNCHANGED <<subVars, opts, callers, prov, pubVars, codecVars, namingVars, multiVars, logVars>>

StoreSpec == StoreInitAll /\ [][StoreNext]_vars

\* goroutines calling Publish on one Publisher built with or without a
\* topic resolver; nothing else runs
PubInitAll ==
    /\ SubInit /\ feed = SubscribeFeed /\ resolver = "default"
    /\ RegInit /\ opts = DefaultNaming
    /\ StoreInit
    /\ topicFn \in {"default", "custom"}
    /\ pubCalls = <<>>
    /\ snsLog = <<>>
    /\ CodecInit
    /\ regs = NamingIdle
    /\ MultiInit
    /\ LogInit

PubNext ==
    \/ PubBegin /\ UNCHANGED <<subVars, regVars, storeVars, codecVars, namingVars, multiVars, logVars>>
    \/ \E i \in 1..Len(pubCalls) :
          PubMarshal(i) /\ UNCHANGED <<subVars, regVars, storeVars, codecVars, namingVars, multiVars, logVars>>
    \/ \E i \in 1..Len(pubCalls) :
          PubResolve(i) /\ UNCHANGED <<subVars, regVars, storeVars, codecVars, namingVars, multiVars, logVars>>
    \/ \E i \in 1..Len(pubCalls) :
          PubPublishReturn(i) /\ UNCHANGED <<subVars, regVars, storeVars, codecVars, namingVars, multiVars, logVars>>

PubSpec == PubInitAll /\ [][PubNext]_vars

\* one Marshal call and one Unmarshal call on its result; nothing else runs
CodecInitAll ==
    /\ SubInit /\ feed = SubscribeFeed /\ resolver = "default"
    /\ RegInit /\ opts = DefaultNaming
    /\ StoreInit
    /\ PubInit
    /\ CodecInit
    /\ regs = NamingIdle
    /\ MultiInit
    /\ LogInit

CodecNext ==
    \/ CodecMarshal /\ UNCHANGED <<subVars, regVars, storeVars, pubVars, namingVars, multiVars, logVars>>
    \/ CodecUnmarshal /\ UNCHANGED <<subVars, regVars, storeVars, pubVars, namingVars, multiVars, logVars>>

CodecSpec == CodecInitAll /\ [][CodecNext]_vars

\* two Registries, each built with one of the conventions, resolve the
\* names of the same payload type; nothing else runs
NamingInitAll ==
    /\ SubInit /\ feed = SubscribeFeed /\ resolver = "default"
    /\ RegInit /\ opts = DefaultNaming
    /\ StoreInit
    /\ PubInit
    /\ CodecInit
    /\ regs \in [1..2 -> {[opts |-> o, names |-> NoNames] : o \in Conventions}]
    /\ MultiInit
    /\ LogInit

NamingNext ==
    \E r \in 1..2 :
        ResolveNames(r) /\ UNCHANGED <<subVars, regVars, storeVars, pubVars, codecVars, multiVars, logVars>>

NamingSpec == NamingInitAll /\ [][NamingNext]_vars

\* the other parts at rest
Others == <<subVars, regVars, storeVars, pubVars, codecVars, namingVars, logVars>>

\* one Subscriber serving a Subscribe call per handler, with the Registry
\* built with either convention
MultiInitAll ==
    /\ SubInit /\ feed = SubscribeFeed /\ resolver = "custom"
    /\ RegInit /\ opts \in RegistryOptions
    /\ StoreInit
    /\ PubInit
    /\ CodecInit
    /\ regs = NamingIdle
    /\ MultiInit
    /\ LogInit

MultiNext ==
    \/ \E h \in Handlers : MCancel(h) /\ UNCHANGED Others
    \/ \E h \in Handlers : MSubscribe(h) /\ UNCHANGED Others
    \/ \E h \in Handlers : MPoll(h) /\ UNCHANGED Others
    \/ \E h \in Handlers : MReceiveReturn(h) /\ UNCHANGED Others
    \/ \E h \in Handlers : MPollDone(h) /\ UNCHANGED Others
    \/ \E h \in Handlers : \E i \in 1..Len(subs[h].tasks) :
          MTaskStart(h, i) /\ UNCHANGED Others
    \/ \E h \in Handlers : \E i \in 1..Len(subs[h].tasks) :
          MTaskHandleReturn(h, i) /\ UNCHANGED Others
    \/ \E h \in Handlers : MReturn(h) /\ UNCHANGED Others

MultiSpec == MultiInitAll /\ [][MultiNext]_vars

\* a process calling SetLogger and Logf one call after the other
LogInitAll ==
    /\ SubInit /\ feed = SubscribeFeed /\ resolver = "default"
    /\ RegInit /\ opts = DefaultNaming
    /\ StoreInit
    /\ PubInit
    /\ CodecInit
    /\ regs = NamingIdle
    /\ MultiInit
    /\ LogInit

LogNext ==
    \/ \E l \in SetLoggerArgs : SetLogger(l) /\ UNCHANGED NoLog
    \/ \E line \in {"first", "second"} : Logf(line) /\ UNCHANGED NoLog

LogSpec == LogInitAll /\ [][LogNext]_vars

(***************************************************************************)
(* Claims about the Registry and the InMemoryStore                         *)
(***************************************************************************)
\* a caller whose call has returned
Completed(p) == callers[p].pc = "idle" /\ callers[p].op # "none"

Failed(p) == Completed(p) /\ callers[p].err # "nil"

\* the broker calls of one full provisioning, in order
TopicCalls == <<"CreateTopic", "SetTopicAttributes">>

SubscriptionCalls ==
    <<"CreateQueue:error", "GetQueueAttributes:error", "CreateQueue:main",
      "GetQueueAttributes:main", "SetQueueAttributes", "Subscribe">>

\* C4: concurrent first-time resolution collapses to one provisioning call:
\* as long as no provisioning call failed, EnsureTopic and EnsureSubscription
\* have each been invoked at most once for the resource name.
C4_SingleProvisioningCall ==
    /\ prov.topicFails = 0 => prov.topicCalls <= 1
    /\ prov.subFails = 0 => prov.subCalls <= 1

\* C5: calls made one after the other provision once: while no call
\* overlapped another and none failed, each provisioning function has been
\* invoked at most once; a call that finds its keys in the store makes no
\* broker call and returns the stored value, and successful calls of the same
\* operation return the same address.
C5_SequentialCallsProvisionOnce ==
    /\ (~overlapped /\ prov.topicFails = 0) => prov.topicCalls <= 1
    /\ (~overlapped /\ prov.subFails = 0) => prov.subCalls <= 1
    /\ \A p \in Callers :
          /\ (Completed(p) /\ callers[p].op = "TopicARN" /\ callers[p].hitT) =>
                /\ callers[p].log = <<>>
                /\ callers[p].err = "nil"
                /\ callers[p].val = items[TopicKey(Tn)]
          /\ (Completed(p) /\ callers[p].op = "QueueURL" /\ callers[p].hitT
                           /\ callers[p].hitQ) =>
                /\ callers[p].log = <<>>
                /\ callers[p].err = "nil"
                /\ callers[p].val = items[QueueKey(Qn)]
    /\ \A p, r \in Callers :
          (/\ Completed(p) /\ Completed(r)
           /\ callers[p].op = callers[r].op
           /\ callers[p].err = "nil" /\ callers[r].err = "nil") =>
              callers[p].val = callers[r].val

\* QueueURL was called twice in sequence: the first call provisioned topic and
\* subscription, the second found both keys and made no broker call
C5_Witness ==
    /\ ~overlapped
    /\ prov = [topicCalls |-> 1, topicFails |-> 0, subCalls |-> 1, subFails |-> 0]
    /\ \E p, r \in Callers :
          /\ Completed(p) /\ callers[p].op = "QueueURL"
          /\ callers[p].log = TopicCalls \o SubscriptionCalls
          /\ Completed(r) /\ callers[r].op = "QueueURL"
          /\ callers[r].hitT /\ callers[r].hitQ /\ callers[r].log = <<>>
          /\ callers[r].val = callers[p].val
          /\ callers[r].val = QueueURLOf(Qn)

\* the failing call was one of EnsureSubscription's broker calls
FailedInSubscription(p) ==
    /\ callers[p].log # <<>>
    /\ callers[p].log[Len(callers[p].log)] \notin {"CreateTopic", "SetTopicAttributes"}

\* C6 as stated: after a QueueURL call on an empty store failed, neither the
\* topic key nor the queue key is in the store.
C6_NothingCachedOnFailure ==
    \A p \in Callers :
        (Failed(p) /\ callers[p].op = "QueueURL" /\ started = 1) =>
            DOMAIN items = {}

\* C6 amended: a failed QueueURL call returns an empty url and never caches
\* the queue key, but the topic key stays cached when the failure was inside
\* EnsureSubscription (it is absent only when the topic itself failed), so
\* the next QueueURL call finds the topic and retries from the error queue.
C6_FailedQueueURLKeepsTopic ==
    \A p \in Callers :
        /\ (Failed(p) /\ callers[p].op = "QueueURL") =>
              /\ callers[p].val = ""
              /\ FailedInSubscription(p) => StoreHas(TopicKey(Tn))
              /\ started = 1 =>
                    /\ ~StoreHas(QueueKey(Qn))
                    /\ StoreHas(TopicKey(Tn)) <=> FailedInSubscription(p)
        /\ (callers[p].op = "QueueURL" /\ callers[p].hitT /\ callers[p].log # <<>>) =>
              callers[p].log[1] = "CreateQueue:error"

\* a QueueURL call failed inside EnsureSubscription and the next QueueURL
\* call, finding the topic cached, provisioned the subscription only
C6_Witness ==
    /\ ~overlapped
    /\ started = 2
    /\ prov = [topicCalls |-> 1, topicFails |-> 0, subCalls |-> 2, subFails |-> 1]
    /\ \E p, r \in Callers :
          /\ Failed(p) /\ callers[p].op = "QueueURL" /\ FailedInSubscription(p)
          /\ Completed(r) /\ callers[r].op = "QueueURL" /\ callers[r].err = "nil"
          /\ callers[r].hitT /\ callers[r].log = SubscriptionCalls

(***************************************************************************)
(* Claims about Subscribe                                                  *)
(***************************************************************************)
TaskIds == 1..Len(tasks)

\* C1: a delivery whose Handle returned an error never has a DeleteMessage
\* call issued for it, whatever the other handling goroutines do.
C1_FailedHandlerNeverAcks ==
    \A i \in TaskIds :
        tasks[i].hret \notin {"none", "nil"} => tasks[i].del = <<>>

\* two deliveries handled side by side: one failed in Handle and finished
\* without a delete while the other one was acknowledged
C1_Witness ==
    \E i, j \in TaskIds :
        /\ tasks[i].hret = "handler error" /\ tasks[i].pc = "done"
        /\ tasks[i].del = <<>>
        /\ tasks[j].hret = "nil" /\ Len(tasks[j].del) = 1

\* C2: a delivery that was decoded and whose Handle returned nil has exactly
\* one DeleteMessage call, issued as soon as Handle returned, for the queue
\* url resolved at Subscribe start and that message's receipt handle; no
\* delivery ever has more than one.
C2_SucceededHandlerAcksOnce ==
    \A i \in TaskIds :
        /\ Len(tasks[i].del) <= 1
        /\ tasks[i].hret = "nil" =>
              /\ tasks[i].handled = 1
              /\ tasks[i].del = <<[QueueUrl |-> q,
                                   ReceiptHandle |-> tasks[i].msg.ReceiptHandle]>>

\* two deliveries of one Subscribe both succeeded and finished
C2_Witness ==
    \E i, j \in TaskIds :
        /\ i # j
        /\ tasks[i].hret = "nil" /\ tasks[i].pc = "done"
        /\ tasks[j].hret = "nil" /\ tasks[j].pc = "done"
        /\ q = "queue"

\* C3: when Subscribe has returned after a successful resolution the poll
\* goroutine has exited and every handling goroutine it spawned has finished.
C3_ReturnAfterAllGoroutines ==
    (subPc = "returned" /\ qerr = "nil") =>
        /\ pollPc = "done"
        /\ \A i \in TaskIds : tasks[i].pc = "done"

\* Subscribe returned after it had spawned handling goroutines over two polls
C3_Witness ==
    /\ subPc = "returned"
    /\ qerr = "nil"
    /\ Len(tasks) >= 2
    /\ Len(receives) >= 2

\* C7 as stated: no ReceiveMessage call is started with the context already
\* cancelled.
C7_NoReceiveAfterCancel ==
    \A k \in 1..Len(receives) : ~receives[k].ctxDone

\* C7 amended: once the context is cancelled a ReceiveMessage call is started
\* only when a tick is pending at the select (without one none is started),
\* and never after the poll goroutine has exited.
C7_ReceiveAfterCancelNeedsTick ==
    [][/\ (ctxDone /\ ~tick) => receives' = receives
       /\ pollPc = "done" => receives' = receives]_vars

\* a receive was started after cancellation and the poll goroutine then
\* exited; a tick that arrived later is still pending
C7_Witness ==
    /\ \E k \in 1..Len(receives) : receives[k].ctxDone
    /\ pollPc = "done"
    /\ tick

\* C8: after a successful resolution Subscribe returns nil once the context
\* is cancelled (in-flight calls return), and it has not returned nil while
\* the context is not cancelled.
C8_ReturnsNilAfterCancel ==
    /\ (ctxDone /\ subPc = "waiting") ~> (subPc = "returned" /\ ret = "nil")
    /\ []((subPc = "returned" /\ qerr = "nil") => ctxDone)

\* Subscribe returned nil after cancellation, having handled a message
C8_Witness ==
    /\ subPc = "returned"
    /\ ret = "nil"
    /\ ctxDone
    /\ \E i \in TaskIds : tasks[i].handled = 1

\* C9: when queueURLFn fails Subscribe has returned that error in the same
\* step and nothing was started: no poll goroutine, no ReceiveMessage call,
\* no handling goroutine, no errorFn call; the default resolver always fails.
C9_ResolveFailureStartsNothing ==
    /\ (qerr \notin {"none", "nil"}) =>
          /\ subPc = "returned"
          /\ ret = qerr
          /\ pollPc = "idle"
          /\ wg = 0
          /\ receives = <<>>
          /\ tasks = <<>>
          /\ recvSink = <<>>
    /\ (resolver = "default" /\ qerr # "none") => qerr = "queue not found"

\* the default resolver failed, after the context had been cancelled
C9_Witness ==
    /\ resolver = "default"
    /\ subPc = "returned"
    /\ ret = "queue not found"
    /\ ctxDone

\* C10: Subscribe's return value is an error exactly when the resolution
\* failed, and then it is that error; after a successful resolution it is
\* nil however many errors went to errorFn.
C10_OnlyResolutionErrorReturned ==
    subPc = "returned" =>
        /\ ret # "nil" <=> qerr # "nil"
        /\ ret = qerr

\* the errors passed to errorFn so far
SinkErrors ==
    {recvSink[k] : k \in 1..Len(recvSink)} \cup
    UNION {{tasks[i].sink[k] : k \in 1..Len(tasks[i].sink)} : i \in TaskIds}

\* Subscribe returned nil although a receive error and two different
\* handling errors had been passed to errorFn
C10_Witness ==
    /\ subPc = "returned"
    /\ ret = "nil"
    /\ "receive error" \in SinkErrors
    /\ Cardinality(SinkErrors) >= 3

\* C11: a ReceiveMessage failure is passed to the error sink, spawns no
\* handling task and leaves the poll loop at its select; and from a state
\* after a failure where n receives were issued, unless the context is
\* cancelled a further ReceiveMessage call is issued (within MaxReceives)
C11_ReceiveFailureKeepsPolling ==
    /\ [][recvSink' # recvSink =>
            /\ recvSink' = Append(recvSink, "receive error")
            /\ tasks' = tasks
            /\ wg' = wg
            /\ pollPc' = "select"]_vars
    /\ \A n \in 1..(MaxReceives - 1) :
          (recvSink # <<>> /\ Len(receives) = n /\ pollPc = "select")
              ~> (ctxDone \/ Len(receives) > n)

\* the first ReceiveMessage failed, nothing was spawned, and a second call
\* is in flight with the context still live
C11_Witness ==
    /\ recvSink = <<"receive error">>
    /\ tasks = <<>>
    /\ Len(receives) = 2
    /\ pollPc = "receiving"
    /\ ~ctxDone
    /\ ~receives[2].ctxDone

\* C12: a delivery whose Handle returned an error has finished with no
\* DeleteMessage call and with exactly one error in the error sink, the
\* handler's own error
C12_HandlerFailureReportedOnce ==
    \A i \in TaskIds :
        tasks[i].hret = "handler error" =>
            /\ tasks[i].pc = "done"
            /\ tasks[i].handled = 1
            /\ tasks[i].del = <<>>
            /\ tasks[i].sink = <<"handler error">>

\* a delivery failed in Handle and was reported while Subscribe was still
\* running with other deliveries in flight
C12_Witness ==
    \E i, j \in TaskIds :
        /\ tasks[i].hret = "handler error"
        /\ tasks[i].sink = <<"handler error">>
        /\ tasks[j].pc \in {"handling", "deleting"}
        /\ subPc = "waiting"

\* the bodies handleMessage cannot decode: empty or missing Message field,
\* invalid base64, bytes that are no envelope, a payload of another type
Undecodable ==
    {EmptyFieldBody, MissingFieldBody, BadBase64Body, GarbageBody, OtherTypeBody}

DecodeErrors ==
    {"illegal base64 data", "proto: cannot parse", "invalid nil source message",
     "mismatched message type"}

\* C13: for a delivery whose body cannot be decoded Handle is never invoked,
\* no DeleteMessage call is issued, and once its goroutine has finished the
\* error sink holds exactly the decode error
C13_UndecodableNeitherHandledNorDeleted ==
    \A i \in TaskIds :
        tasks[i].msg.Body \in Undecodable =>
            /\ tasks[i].pc \in {"spawned", "done"}
            /\ tasks[i].handled = 0
            /\ tasks[i].hret = "none"
            /\ tasks[i].del = <<>>
            /\ tasks[i].pc = "done" =>
                  /\ Len(tasks[i].sink) = 1
                  /\ tasks[i].sink[1] \in DecodeErrors

\* a payload of another type and a body that is not base64 were both
\* received, rejected and reported
C13_Witness ==
    \E i, j \in TaskIds :
        /\ tasks[i].msg.Body = OtherTypeBody
        /\ tasks[i].sink = <<"mismatched message type">>
        /\ tasks[j].msg.Body = BadBase64Body
        /\ tasks[j].sink = <<"illegal base64 data">>
        /\ tasks[i].pc = "done" /\ tasks[j].pc = "done"

\* C14: a delivery with a delete error in the error sink has finished, its
\* Handle was invoked once and returned nil, one DeleteMessage call was
\* issued and the delete error is the only error reported for it; and a
\* finished delivery is never touched again (no retry, no second Handle)
C14_DeleteFailureReportedNotRetried ==
    /\ [](\A i \in TaskIds :
            (\E k \in 1..Len(tasks[i].sink) : tasks[i].sink[k] = "delete error") =>
                /\ tasks[i].pc = "done"
                /\ tasks[i].hret = "nil"
                /\ tasks[i].handled = 1
                /\ Len(tasks[i].del) = 1
                /\ tasks[i].sink = <<"delete error">>)
    /\ [][\A i \in TaskIds :
            tasks[i].pc = "done" => tasks'[i] = tasks[i]]_vars

\* Handle succeeded, the delete failed and was reported, and Subscribe has
\* returned since
C14_Witness ==
    \E i \in TaskIds :
        /\ tasks[i].hret = "nil"
        /\ tasks[i].sink = <<"delete error">>
        /\ Len(tasks[i].del) = 1
        /\ subPc = "returned"

\* C15: within one delivery Handle is invoked only from the not yet decoded
\* state and only for a body that decodes, and a DeleteMessage call is issued
\* only by the step in which Handle, invoked earlier for that delivery,
\* returns nil; while Handle runs no delete has been issued.  This holds for
\* every delivery whatever steps the other goroutines take in between.
C15_DecodeHandleAcknowledgeInOrder ==
    /\ [][\A i \in TaskIds :
            /\ tasks'[i].handled > tasks[i].handled =>
                  /\ tasks[i].pc = "spawned"
                  /\ tasks[i].msg.Body = ValidBody
                  /\ tasks'[i].pc = "handling"
            /\ Len(tasks'[i].del) > Len(tasks[i].del) =>
                  /\ tasks[i].pc = "handling"
                  /\ tasks[i].handled = 1
                  /\ tasks[i].hret = "none"
                  /\ tasks'[i].hret = "nil"]_vars
    /\ [](\A i \in TaskIds :
            tasks[i].pc \in {"spawned", "handling"} =>
                tasks[i].del = <<>> /\ tasks[i].hret = "none")

\* three deliveries at three different steps at once: one not yet decoded,
\* one inside Handle, one waiting for its DeleteMessage call
C15_Witness ==
    \E i, j, k \in TaskIds :
        /\ tasks[i].pc = "spawned"
        /\ tasks[j].pc = "handling"
        /\ tasks[k].pc = "deleting" /\ Len(tasks[k].del) = 1

\* sequence a is an initial part of sequence b
IsPrefix(a, b) == Len(a) <= Len(b) /\ a = SubSeq(b, 1, Len(a))

\* C16: a QueueURL call that found neither the topic key nor the queue key
\* issues create topic, set topic attributes, create error queue, read its
\* attributes, create main queue, read its attributes, set queue attributes,
\* subscribe, in this order and each at most once; when it has returned
\* without error it has issued all eight, returns the main queue's url and
\* that url is stored under the queue key of the queue name
C16_QueueURLProvisioningOrder ==
    \A p \in Callers :
        (callers[p].op = "QueueURL" /\ ~callers[p].hitT /\ ~callers[p].hitQ) =>
            /\ IsPrefix(callers[p].log, TopicCalls \o SubscriptionCalls)
            /\ (Completed(p) /\ callers[p].err = "nil") =>
                  /\ callers[p].log = TopicCalls \o SubscriptionCalls
                  /\ callers[p].val = QueueURLOf(Qn)
                  /\ StoreHas(QueueKey(Qn))
                  /\ items[QueueKey(Qn)] = QueueURLOf(Qn)
                  /\ StoreHas(TopicKey(Tn))

\* the only call made on the Registry was a QueueURL call, it started from
\* the empty store, issued all eight broker calls and returned
C16_Witness ==
    /\ started = 1
    /\ \E p \in Callers :
          /\ Completed(p) /\ callers[p].op = "QueueURL"
          /\ callers[p].err = "nil"
          /\ Len(callers[p].log) = 8
          /\ callers[p].val = items[QueueKey(Qn)]
    /\ DOMAIN items = {TopicKey(Tn), QueueKey(Qn)}

(***************************************************************************)
(* Claims about the InMemoryStore called directly                          *)
(***************************************************************************)
\* a store call that has returned, and one that returned an error
StoreCompleted(p) == clients[p].pc = "idle" /\ clients[p].err # "none"
StoreFailed(p) == StoreCompleted(p) /\ clients[p].err # "nil"

\* C17: a get-or-set call whose value function failed returns the error with
\* an empty value; the store holds exactly the keys for which some value
\* function returned a value, so a failure adds nothing; and a call for a key
\* for which no value function has succeeded goes on from its lookup to
\* invoke the value function
C17_FnErrorLeavesKeyAbsent ==
    /\ [](\A p \in Callers :
            StoreFailed(p) =>
                /\ clients[p].val = ""
                /\ clients[p].called
                /\ ~clients[p].hit)
    /\ [](DOMAIN items = DOMAIN firstSet)
    /\ [][\A p \in Callers :
            (/\ clients[p].pc = "get"
             /\ clients[p].key \notin DOMAIN firstSet
             /\ clients'[p] # clients[p]) => clients'[p].pc = "fn"]_vars

\* two calls for one key, one after the other: the value function of the
\* first failed, the second call invoked its own value function and stored
\* its result
C17_Witness ==
    /\ ~overlapped
    /\ \E p, r \in Callers :
          /\ StoreFailed(p) /\ clients[p].val = ""
          /\ StoreCompleted(r) /\ clients[r].key = clients[p].key
          /\ clients[r].called /\ clients[r].err = "nil"
          /\ items = (clients[r].key :> clients[r].val)

\* C18: every key of the store still holds the value that was stored for it
\* first, so that every read of the key returns that value
C18_CachedValueNeverChanges ==
    \A k \in DOMAIN items : k \in DOMAIN firstSet /\ items[k] = firstSet[k]

(***************************************************************************)
(* Claims about Publish                                                    *)
(***************************************************************************)
PubIds == 1..Len(pubCalls)

\* C19: on a Publisher built without a topic resolver the SNS client's
\* Publish is never called, and every Publish call that has returned has
\* returned an error without having reached the transport
C19_NoResolverNoTransportCall ==
    topicFn = "default" =>
        /\ snsLog = <<>>
        /\ \A i \in PubIds :
              /\ pubCalls[i].sent = <<>>
              /\ pubCalls[i].pc # "publishing"
              /\ pubCalls[i].pc = "returned" =>
                    pubCalls[i].ret \in {"topic not found",
                                         "invalid nil source message"}

\* two Publish calls of a well-formed message on a Publisher without a
\* resolver have both returned the resolver's error
C19_Witness ==
    /\ topicFn = "default"
    /\ Len(pubCalls) = 2
    /\ \A i \in PubIds :
          /\ pubCalls[i].m = TestMessage
          /\ pubCalls[i].pc = "returned"
          /\ pubCalls[i].ret = "topic not found"

\* C20: a Publish call has no result before it returns; one that returned nil
\* had its message encoded, its topic resolved and its transport call
\* succeed, and made exactly one transport call, to the resolved arn with the
\* encoded message; one whose transport call failed returned that error
\* after that single call; and the SNS client has seen no other calls
C20_PublishReturnsErrorsSynchronously ==
    /\ \A i \in PubIds :
          LET c == pubCalls[i] IN
          /\ Len(c.sent) <= 1
          /\ c.pc # "returned" => c.ret = "none"
          /\ (c.pc = "returned" /\ c.ret = "nil") =>
                /\ c.merr = "nil" /\ c.rerr = "nil" /\ c.perr = "nil"
                /\ c.arn = "topic"
                /\ c.sent = <<[TopicArn |-> c.arn,
                               Message |-> Body("b64", "envelope", Join(c.m, "."))]>>
          /\ c.perr = "publish error" =>
                /\ c.pc = "returned"
                /\ c.ret = "publish error"
                /\ Len(c.sent) = 1
    /\ Len(snsLog) = Cardinality({i \in PubIds : pubCalls[i].sent # <<>>})

\* one Publish call succeeded and another one failed in the transport; the
\* SNS client was called once for each
C20_Witness ==
    /\ Len(snsLog) = 2
    /\ \E i, j \in PubIds :
          /\ pubCalls[i].pc = "returned" /\ pubCalls[i].ret = "nil"
          /\ pubCalls[j].pc = "returned" /\ pubCalls[j].ret = "publish error"

(***************************************************************************)
(* Claims about the envelope codec                                         *)
(***************************************************************************)
\* the metadata produced at encode time, after the option functions ran
Applied == EncodeMetadata(codec.m, codec.fns, codec.id, codec.now)

\* C21 as stated: for every valid payload and every list of option functions
\* Marshal succeeds, and Unmarshal into a prototype of the payload's type
\* succeeds with the payload and exactly the metadata produced at encode time
C21_RoundTrip ==
    /\ (codec.pc # "idle" /\ codec.m # NilPayload) => codec.enc.err = "nil"
    /\ (codec.pc = "decoded" /\ codec.proto.type = codec.m.type) =>
          /\ codec.dec.err = "nil"
          /\ codec.dec.msg.Payload = codec.m
          /\ codec.dec.msg.Metadata = Applied

\* C21 amended: Marshal of a valid payload succeeds; Unmarshal of its result
\* into a prototype of the payload's type succeeds, whatever the prototype
\* held, with the payload, the ID, Type and CorrelationID produced at encode
\* time, and the instant of the encode-time Timestamp expressed in UTC
C21_RoundTripUpToLocation ==
    /\ (codec.pc # "idle" /\ codec.m # NilPayload) => codec.enc.err = "nil"
    /\ (codec.pc = "decoded" /\ codec.proto.type = codec.m.type) =>
          /\ codec.dec.err = "nil"
          /\ codec.dec.msg.Payload = codec.m
          /\ codec.dec.msg.Metadata =
                [Applied EXCEPT !.Timestamp = Time(Applied.Timestamp.instant, "UTC")]

\* a payload encoded with a Timestamp in the local zone was decoded into a
\* prototype that held a stale value: the payload is back, the Timestamp is
\* the same instant in UTC
C21_Witness ==
    /\ codec.pc = "decoded"
    /\ codec.m = Payload(TestMessage, "value")
    /\ codec.proto = Payload(TestMessage, "stale")
    /\ codec.fns = <<SetField("Timestamp", Time(300, "Local"))>>
    /\ codec.dec.err = "nil"
    /\ codec.dec.msg.Payload = codec.m
    /\ codec.dec.msg.Metadata.Timestamp = Time(300, "UTC")

\* the fields the option functions of the call assign
FieldsSet == {codec.fns[k].field : k \in 1..Len(codec.fns)}

\* C24: every envelope Marshal produced has a non-empty id and a non-zero
\* timestamp, and an empty correlation id unless an option function set it
C24_IDAndTimestampPopulated ==
    (codec.pc # "idle" /\ codec.enc.err = "nil") =>
        LET wm == codec.enc.bytes[1] IN
        /\ wm.id # ""
        /\ wm.timestamp # ZeroTime.instant
        /\ "CorrelationID" \notin FieldsSet => wm.correlation_id = ""

(***************************************************************************)
(* Claims about the naming conventions                                     *)
(***************************************************************************)
Resolved(r) == regs[r].names # NoNames
Prefixed(r) == regs[r].opts.kind = "prefix"

\* C22: under prefix naming two Registries with the same stage and service
\* resolve the same three names for the payload type, and two with the same
\* stage and different services resolve different queue names and different
\* error-queue names and the same topic name; for stage "dev" and service
\* "svc" the names are those of the documented format
C22_PrefixNamingDeterministic ==
    /\ \A a, b \in 1..2 :
          (Resolved(a) /\ Resolved(b) /\ Prefixed(a) /\ Prefixed(b)) =>
              /\ regs[a].opts = regs[b].opts => regs[a].names = regs[b].names
              /\ (/\ regs[a].opts.stage = regs[b].opts.stage
                  /\ regs[a].opts.service # regs[b].opts.service) =>
                    /\ regs[a].names.queue # regs[b].names.queue
                    /\ regs[a].names.error # regs[b].names.error
                    /\ regs[a].names.topic = regs[b].names.topic
    /\ \A r \in 1..2 :
          (Resolved(r) /\ regs[r].opts = WithPrefixNaming("dev", "svc")) =>
              regs[r].names = [topic |-> "dev-pram-test-Message",
                               queue |-> "dev-svc-pram-test-Message",
                               error |-> "dev-svc-pram-test-Message_error"]

\* two services of stage "dev" have resolved their names: one topic, two
\* queues, two error queues
C22_Witness ==
    /\ regs[1].opts = WithPrefixNaming("dev", "svc")
    /\ regs[2].opts = WithPrefixNaming("dev", "b")
    /\ Resolved(1) /\ Resolved(2)
    /\ regs[1].names.topic = regs[2].names.topic
    /\ regs[1].names.queue # regs[2].names.queue

\* C23 as stated: two Registries built with different conventions never
\* resolve the same topic, queue or error-queue name for the payload type
C23_DifferentConventionsDisjoint ==
    (Resolved(1) /\ Resolved(2) /\ regs[1].opts # regs[2].opts) =>
        /\ regs[1].names.topic # regs[2].names.topic
        /\ regs[1].names.queue # regs[2].names.queue
        /\ regs[1].names.error # regs[2].names.error

\* the text a prefix convention puts in front of the queue names
QueuePrefix(r) == regs[r].opts.stage \o "-" \o regs[r].opts.service

\* C23 amended: two Registries resolve the same topic name exactly when they
\* use the same kind of convention with the same stage, and the same queue
\* name (likewise error-queue name) exactly when they use the same kind of
\* convention and stage and service joined by a hyphen are the same text
C23_NamesCoincideOnlyOnSamePrefix ==
    (Resolved(1) /\ Resolved(2)) =>
        /\ regs[1].names.topic = regs[2].names.topic <=>
              /\ regs[1].opts.kind = regs[2].opts.kind
              /\ regs[1].opts.stage = regs[2].opts.stage
        /\ regs[1].names.queue = regs[2].names.queue <=>
              /\ regs[1].opts.kind = regs[2].opts.kind
              /\ QueuePrefix(1) = QueuePrefix(2)
        /\ regs[1].names.error = regs[2].names.error <=>
              regs[1].names.queue = regs[2].names.queue

\* two different stage and service pairs whose queue names coincide, while
\* their topic names differ
C23_Witness ==
    /\ regs[1].opts = WithPrefixNaming("a-b", "c")
    /\ regs[2].opts = WithPrefixNaming("a", "b-c")
    /\ Resolved(1) /\ Resolved(2)
    /\ regs[1].names.queue = regs[2].names.queue
    /\ regs[1].names.topic # regs[2].names.topic

\* C25: a delivery whose Handle was invoked made one h.Message() call, and the
\* payload Handle received is the instance that call returned, of the
\* handler's type; no two deliveries were handed the same instance, and a
\* delivery whose Handle was not invoked was handed nothing
C25_HandleReceivesOwnInstance ==
    /\ \A i \in TaskIds :
          /\ tasks[i].handled = 1 =>
                /\ tasks[i].inst # 0
                /\ tasks[i].arg = [inst |-> tasks[i].inst, type |-> HandlerType]
          /\ tasks[i].handled = 0 => tasks[i].arg = NoArg
    /\ \A i, j \in TaskIds :
          (i # j /\ tasks[i].handled = 1 /\ tasks[j].handled = 1) =>
              tasks[i].arg.inst # tasks[j].arg.inst

\* two deliveries are inside Handle at the same time, each with its own
\* instance, while a third one obtained an instance and failed to decode
C25_Witness ==
    \E i, j, k \in TaskIds :
        /\ i # j
        /\ tasks[i].pc = "handling" /\ tasks[j].pc = "handling"
        /\ tasks[i].arg.inst # tasks[j].arg.inst
        /\ tasks[k].inst # 0 /\ tasks[k].handled = 0 /\ tasks[k].pc = "done"

(***************************************************************************)
(* Claims about several Subscribe invocations on one Subscriber            *)
(***************************************************************************)
\* C26: with one Subscribe call per handler running on one Subscriber, every
\* ReceiveMessage call of a call polls the queue resolved for its own
\* handler; a message is passed to no handler but the one of the call that
\* received it, and only when it carries that handler's payload type; a
\* delete targets the queue the message came from; and a call's poll loop
\* ends, and the call returns nil, only when its own context was cancelled
C26_ConcurrentSubscribesIndependent ==
    \A h \in Handlers :
        /\ \A k \in 1..Len(subs[h].receives) :
              subs[h].receives[k].QueueUrl = HandlerQueue(h)
        /\ \A i \in 1..Len(subs[h].tasks) :
              LET t == subs[h].tasks[i] IN
              /\ t.from = HandlerQueue(h)
              /\ t.by \in {"", h}
              /\ t.by = h => t.type = HandlerMessage(h)
              /\ t.del \in {<<>>, <<t.from>>}
              /\ t.del # <<>> => t.by = h
        /\ subs[h].pollPc = "done" => subs[h].ctxDone
        /\ (subs[h].pc = "returned" /\ subs[h].ret = "nil") => subs[h].ctxDone

\* handlerA's call has returned; handlerB's call, whose context is live,
\* polled its own queue after that, handled the message and deleted it
C26_Witness ==
    /\ subs["handlerA"].pc = "returned"
    /\ ~subs["handlerB"].ctxDone
    /\ subs["handlerB"].receives # <<>>
    /\ "handlerA" \in subs["handlerB"].receives[1].after
    /\ \E i \in 1..Len(subs["handlerB"].tasks) :
          /\ subs["handlerB"].tasks[i].by = "handlerB"
          /\ subs["handlerB"].tasks[i].del = <<HandlerQueue("handlerB")>>
    /\ HandlerQueue("handlerA") # HandlerQueue("handlerB")

(***************************************************************************)
(* Claims about the package logger                                         *)
(***************************************************************************)
RECURSIVE LinesFor(_, _)
\* the lines of the Logf calls made while logger l was the last one set
LinesFor(l, calls) ==
    IF calls = <<>> THEN <<>>
    ELSE IF Head(calls).lastSet = l
         THEN <<Head(calls).line>> \o LinesFor(l, Tail(calls))
         ELSE LinesFor(l, Tail(calls))

\* C27: after any sequence of SetLogger and Logf calls the package logger is
\* not nil and no Logf call has panicked; after SetLogger(nil) it is the
\* no-op logger, after SetLogger(l) it is l; and every logger has received
\* exactly the lines logged while it was the last logger set, in order
C27_LoggerNeverNil ==
    /\ log.logger # "nil"
    /\ ~log.panicked
    /\ log.lastSet \in {"none", "nil"} => log.logger = "noop"
    /\ log.lastSet \in Loggers => log.logger = log.lastSet
    /\ \A l \in Loggers : log.out[l] = LinesFor(l, log.calls)

\* a logger was installed and received a line, SetLogger(nil) was called and
\* a further Logf call was dropped without a panic
C27_Witness ==
    /\ log.lastSet = "nil"
    /\ log.out["loggerA"] = <<"first">>
    /\ Len(log.calls) = 2
    /\ log.calls[2].lastSet = "nil"
    /\ ~log.panicked

\* the handling goroutines spawned for message m
SpawnedFor(m) == {i \in TaskIds : tasks[i].msg = m}

\* C28: for every message of a batch that a successful ReceiveMessage call
\* returned exactly one handling goroutine was spawned, and no goroutine
\* exists for anything but a message of one returned batch, so each poll
\* spawned as many goroutines as its batch has messages.
C28_OneTaskPerBatchMessage ==
    /\ \A k \in 1..Len(receives) :
          \A j \in 1..Len(receives[k].out) :
              Cardinality(SpawnedFor(receives[k].out[j])) = 1
    /\ \A i \in TaskIds :
          Cardinality({kj \in {<<k, j>> : k \in 1..Len(receives),
                                          j \in 1..MaxNumberOfMessages} :
                         /\ kj[2] <= Len(receives[kj[1]].out)
                         /\ receives[kj[1]].out[kj[2]] = tasks[i].msg}) = 1

\* two successful polls, the first with a full batch, and three goroutines
C28_Witness ==
    /\ Len(receives) = 2
    /\ Len(receives[1].out) = MaxNumberOfMessages
    /\ Len(receives[2].out) = 1
    /\ Len(tasks) = MaxNumberOfMessages + 1

\* the handling goroutines that have not finished
Unfinished == {i \in TaskIds : tasks[i].pc # "done"}

\* C29: the poll loop does not wait for handling goroutines: whenever the loop
\* is at its select with a tick ready it can call ReceiveMessage, whatever
\* the goroutines of earlier batches are doing, so the number of unfinished
\* goroutines is limited only by MaxNumberOfMessages per ReceiveMessage call
\* made, not by MaxNumberOfMessages.
C29_PollingDoesNotWaitForTasks ==
    /\ (pollPc = "select" /\ TickReady /\ Len(receives) < feed.maxReceives)
          => ENABLED PollTick
    /\ Cardinality(Unfinished) <= Len(receives) * MaxNumberOfMessages

\* after the second poll more than MaxNumberOfMessages handlers are blocked
\* in Handle at once
C29_Witness ==
    /\ Len(receives) = 2
    /\ Cardinality(Unfinished) > MaxNumberOfMessages
    /\ \A i \in TaskIds : tasks[i].pc = "handling"

\* C30: a handling goroutine that exists when the context is cancelled still
\* runs to its end, and Subscribe does not return before it has: when
\* Subscribe has returned, every goroutine whose Handle returned nil with the
\* context already cancelled has had its one DeleteMessage call issued.
C30_SpawnedTaskCompletesAfterCancel ==
    /\ \A i \in 1..MaxCancelTasks :
          (i \in TaskIds /\ ctxDone /\ tasks[i].pc # "done")
              ~> (i \in TaskIds /\ tasks[i].pc = "done")
    /\ [](\A i \in TaskIds :
            /\ subPc = "returned" => tasks[i].pc = "done"
            /\ (tasks[i].hctxDone /\ tasks[i].hret = "nil") =>
                  /\ tasks[i].del = <<DeleteMessageInput(tasks[i])>>
                  /\ tasks[i].pc \in {"deleting", "done"})

\* Subscribe has returned; a handler had returned nil after the cancellation
\* and its message was acknowledged
C30_Witness ==
    /\ subPc = "returned"
    /\ \E i \in TaskIds :
          /\ tasks[i].hctxDone
          /\ tasks[i].hret = "nil"
          /\ Len(tasks[i].del) = 1
          /\ tasks[i].sink = <<>>

(***************************************************************************)
(* Further claims about the Registry                                       *)
(***************************************************************************)
\* a call that failed inside EnsureTopic
FailedInTopic(p) ==
    callers[p].failedAt \in {"CreateTopic", "SNSAccessPolicy", "SetTopicAttributes"}

\* C31: a QueueURL call in which a broker call of EnsureSubscription failed
\* returns the error with an empty url, and the broker calls it issued for
\* the subscription are the calls of the sequence up to the one that failed
\* and no later one; after a failed SetQueueAttributes there is no Subscribe.
C31_SubscriptionFailureStopsLaterCalls ==
    \A p \in Callers :
        (Failed(p) /\ ~FailedInTopic(p)) =>
            /\ callers[p].op = "QueueURL"
            /\ callers[p].val = ""
            /\ \E n \in 1..Len(SubscriptionCalls) :
                  /\ SubscriptionCalls[n] = callers[p].failedAt
                  /\ callers[p].log =
                        (IF callers[p].hitT THEN <<>> ELSE TopicCalls)
                            \o SubSeq(SubscriptionCalls, 1, n)
            /\ callers[p].failedAt = "SetQueueAttributes" =>
                  \A k \in 1..Len(callers[p].log) :
                      callers[p].log[k] # "Subscribe"

\* a QueueURL call on the empty store whose SetQueueAttributes call failed
C31_Witness ==
    \E p \in Callers :
        /\ Failed(p) /\ callers[p].failedAt = "SetQueueAttributes"
        /\ Len(callers[p].log) = 7
        /\ ~StoreHas(QueueKey(Qn))

\* the EnsureTopic calls in progress, and those that returned a topic arn
TopicsInFlight ==
    Cardinality({p \in Callers : callers[p].pc \in {"CreateTopic", "SetTopicAttributes"}})
TopicsEnsured == prov.topicCalls - prov.topicFails - TopicsInFlight

\* C32: EnsureTopic issues CreateTopic and then SetTopicAttributes; a call
\* that missed the topic key returns the topic arn only when both succeeded;
\* when CreateTopic failed or returned an arn no policy can be made for,
\* SetTopicAttributes is not called; and the topic key is in the store only
\* when some EnsureTopic call succeeded, so a failure caches nothing.
C32_EnsureTopicOrderAndFailure ==
    /\ \A p \in Callers :
          /\ callers[p].op = "TopicARN" => IsPrefix(callers[p].log, TopicCalls)
          /\ (Completed(p) /\ callers[p].op = "TopicARN" /\ ~callers[p].hitT) =>
                /\ callers[p].err = "nil" =>
                      /\ callers[p].log = TopicCalls
                      /\ callers[p].val = TopicARNOf(Tn)
                      /\ StoreHas(TopicKey(Tn))
                /\ callers[p].err # "nil" =>
                      /\ callers[p].val = ""
                      /\ FailedInTopic(p)
                /\ callers[p].failedAt \in {"CreateTopic", "SNSAccessPolicy"} =>
                      callers[p].log = <<"CreateTopic">>
                /\ callers[p].failedAt = "SetTopicAttributes" =>
                      callers[p].log = TopicCalls
    /\ StoreHas(TopicKey(Tn)) <=> TopicsEnsured >= 1
    /\ StoreHas(TopicKey(Tn)) => items[TopicKey(Tn)] = TopicARNOf(Tn)

\* a TopicARN call was given an arn no policy can be made for, so it made
\* no SetTopicAttributes call and the store is still empty
C32_Witness ==
    /\ started = 1
    /\ DOMAIN items = {}
    /\ \E p \in Callers :
          /\ Failed(p) /\ callers[p].op = "TopicARN"
          /\ callers[p].failedAt = "SNSAccessPolicy"
          /\ callers[p].log = <<"CreateTopic">>

(***************************************************************************)
(* Further claims about Subscribe                                          *)
(***************************************************************************)
\* C33: at most one ReceiveMessage call of a Subscribe invocation is in
\* flight: while a call has not returned no other call is started, whatever
\* ticks arrive, and a call is started only by the poll loop at its select,
\* one at a time.
C33_OneReceiveInFlight ==
    [][/\ pollPc = "receiving" => receives' = receives
       /\ receives' # receives =>
             /\ pollPc = "select" /\ pollPc' = "receiving"
             /\ receives' = Append(receives, receives'[Len(receives')])]_vars

\* the second ReceiveMessage call is in flight and a tick has arrived
\* meanwhile
C33_Witness ==
    /\ pollPc = "receiving"
    /\ Len(receives) = 2
    /\ tick

\* C34: the messages that a ReceiveMessage call started before the
\* cancellation returned after it are dispatched all the same: each has
\* exactly one handling goroutine, and when Subscribe has returned that
\* goroutine has finished, having called the handler or reported an error.
C34_LateBatchStillDispatched ==
    \A k \in 1..Len(receives) :
        (~receives[k].ctxDone /\ receives[k].retCtxDone) =>
            \A j \in 1..Len(receives[k].out) :
                /\ Cardinality(SpawnedFor(receives[k].out[j])) = 1
                /\ \A i \in SpawnedFor(receives[k].out[j]) :
                      /\ subPc # "returned" \/ tasks[i].pc = "done"
                      /\ tasks[i].pc = "done" =>
                            (tasks[i].handled = 1 \/ tasks[i].sink # <<>>)

\* Subscribe has returned; the only ReceiveMessage call was in flight at the
\* cancellation and the two messages it returned were handled
C34_Witness ==
    /\ subPc = "returned"
    /\ Len(receives) = 1
    /\ ~receives[1].ctxDone /\ receives[1].retCtxDone
    /\ Len(receives[1].out) = 2
    /\ \A i \in TaskIds : tasks[i].handled = 1 /\ tasks[i].hctxDone

\* C35: the error sink is called at most once for a delivery, in the step
\* that ends its goroutine and with the error of the stage that failed
\* (decoding before Handle, Handle itself, DeleteMessage after Handle
\* returned nil), so a delivery all of whose stages succeeded reports
\* nothing; and at most once for a ReceiveMessage call, in the step in which
\* the call returns.
C35_SinkAtMostOncePerTaskAndPoll ==
    /\ [](/\ \A i \in TaskIds :
              /\ Len(tasks[i].sink) <= 1
              /\ tasks[i].pc # "done" => tasks[i].sink = <<>>
              /\ (tasks[i].sink # <<>> /\ tasks[i].hret = "none") =>
                    (tasks[i].handled = 0 /\ tasks[i].sink[1] \in DecodeErrors)
              /\ (tasks[i].sink # <<>> /\ tasks[i].hret = "nil") =>
                    tasks[i].sink = <<"delete error">>
              /\ (tasks[i].sink # <<>> /\ tasks[i].hret = "handler error") =>
                    tasks[i].sink = <<"handler error">>
          /\ Len(recvSink) <= Len(receives) - (IF pollPc = "receiving" THEN 1 ELSE 0))
    /\ [][/\ \A i \in TaskIds :
              tasks'[i].sink # tasks[i].sink =>
                  (tasks[i].pc # "done" /\ tasks'[i].pc = "done")
          /\ recvSink' # recvSink =>
                /\ pollPc = "receiving" /\ pollPc' # "receiving"
                /\ Len(recvSink') = Len(recvSink) + 1
                /\ tasks' = tasks]_vars

\* two polls: one failed and was reported once; of the deliveries of the
\* other, one went through with nothing reported and one was reported once
C35_Witness ==
    /\ Len(receives) = 2
    /\ recvSink = <<"receive error">>
    /\ \E i, j \in TaskIds :
          /\ tasks[i].pc = "done" /\ tasks[i].hret = "nil"
          /\ Len(tasks[i].del) = 1 /\ tasks[i].sink = <<>>
          /\ Len(tasks[j].sink) = 1

\* C36: a QueueURL call that finds the topic key in the store when it looks
\* the topic up issues no CreateTopic and no SetTopicAttributes call: it goes
\* on to the queue lookup with the cached arn, and when the queue key is
\* missing its broker calls are those of EnsureSubscription only, the
\* subscription being made to the cached topic arn.
C36_CachedTopicSkipsEnsureTopic ==
    /\ [][\A p \in Callers :
            (/\ callers[p].pc = "topicGet" /\ callers'[p].pc # "topicGet"
             /\ callers[p].op = "QueueURL" /\ StoreHas(TopicKey(Tn))) =>
                /\ callers'[p].pc = "queueGet"
                /\ callers'[p].hitT
                /\ callers'[p].ta = items[TopicKey(Tn)]
                /\ prov'.topicCalls = prov.topicCalls]_vars
    /\ [](\A p \in Callers :
            (callers[p].op = "QueueURL" /\ callers[p].hitT) =>
                /\ IsPrefix(callers[p].log, SubscriptionCalls)
                /\ callers[p].ta = TopicARNOf(Tn)
                /\ StoreHas(TopicKey(Tn)) /\ items[TopicKey(Tn)] = callers[p].ta
                /\ callers[p].subTopic \in {"", callers[p].ta}
                /\ (Completed(p) /\ callers[p].err = "nil" /\ ~callers[p].hitQ) =>
                      /\ callers[p].log = SubscriptionCalls
                      /\ callers[p].subTopic = callers[p].ta)

\* after a TopicARN call had cached the topic, a QueueURL call made the six
\* calls of EnsureSubscription and subscribed the queue to the cached arn
C36_Witness ==
    /\ ~overlapped
    /\ started = 2
    /\ prov = [topicCalls |-> 1, topicFails |-> 0, subCalls |-> 1, subFails |-> 0]
    /\ \E p \in Callers :
          /\ Completed(p) /\ callers[p].op = "QueueURL" /\ callers[p].err = "nil"
          /\ callers[p].hitT /\ ~callers[p].hitQ
          /\ callers[p].log = SubscriptionCalls
          /\ callers[p].subTopic = TopicARNOf(Tn)

\* C37: topic arns and queue urls are kept under different keys even when
\* the topic name and the queue name are the same text, so the topic key
\* always holds the topic's arn and the queue key the queue's url, a
\* successful TopicARN call returns the arn and a successful QueueURL call
\* returns the url, never the arn.
C37_TopicAndQueueKeysDisjoint ==
    /\ TopicKey(Tn) # QueueKey(Qn)
    /\ StoreHas(TopicKey(Tn)) => items[TopicKey(Tn)] = TopicARNOf(Tn)
    /\ StoreHas(QueueKey(Qn)) => items[QueueKey(Qn)] = QueueURLOf(Qn)
    /\ \A p \in Callers :
          (Completed(p) /\ callers[p].err = "nil") =>
              /\ callers[p].op = "TopicARN" => callers[p].val = TopicARNOf(Tn)
              /\ callers[p].op = "QueueURL" =>
                    /\ callers[p].val = QueueURLOf(Qn)
                    /\ callers[p].val # TopicARNOf(Tn)

\* under the default naming the topic and the queue have one name; with
\* both keys stored a TopicARN call got the arn and a QueueURL call the url,
\* each from the store
C37_Witness ==
    /\ Tn = Qn
    /\ DOMAIN items = {TopicKey(Tn), QueueKey(Qn)}
    /\ \E p, r \in Callers :
          /\ Completed(p) /\ callers[p].op = "TopicARN" /\ callers[p].hitT
          /\ callers[p].val = TopicARNOf(Tn)
          /\ Completed(r) /\ callers[r].op = "QueueURL" /\ callers[r].hitQ
          /\ callers[r].val = QueueURLOf(Qn)

\* C38: one Subscribe invocation calls queueURLFn exactly once, as its first
\* step and so before any ReceiveMessage call; the url is never resolved
\* again or changed afterwards, and every ReceiveMessage and DeleteMessage
\* call of the invocation is made on the url that call returned.
C38_ResolvedOnceAndUsedThroughout ==
    /\ [](/\ resolves = (IF subPc = "start" THEN 0 ELSE 1)
          /\ receives # <<>> => (resolves = 1 /\ qerr = "nil" /\ q # "")
          /\ \A k \in 1..Len(receives) : receives[k].QueueUrl = q
          /\ \A i \in TaskIds :
                \A k \in 1..Len(tasks[i].del) : tasks[i].del[k].QueueUrl = q)
    /\ [][/\ resolves' # resolves =>
                (subPc = "start" /\ receives = <<>> /\ receives' = <<>>)
          /\ q' # q => resolves' = resolves + 1]_vars

\* Subscribe has returned after one resolution, two ReceiveMessage calls and
\* a DeleteMessage call, all on the resolved url
C38_Witness ==
    /\ subPc = "returned"
    /\ resolves = 1
    /\ q = "queue"
    /\ Len(receives) = 2
    /\ \E i \in TaskIds : Len(tasks[i].del) = 1 /\ tasks[i].del[1].QueueUrl = q
====
